---- MODULE Spec2Model ----
(***************************************************************************)
(* Voice of Hadhramaut: the client-side resilience layer.                  *)
(*                                                                         *)
(*   ApiManager       request gateway: response cache, in-flight map,      *)
(*                    retry loop, bearer header                            *)
(*   AnalyticsSystem  event queue: addToQueue, flushQueue, saveQueue       *)
(*   SyncService      syncAllData and its three phases, over               *)
(*                    LocalDataService's persisted collections             *)
(*                                                                         *)
(* JavaScript runs one task at a time; a handler runs without interleaving *)
(* up to its next await.  Every action below is one such run-to-await      *)
(* stretch of a handler, or the settling of an awaited operation together  *)
(* with the code that resumes after it.                                    *)
(***************************************************************************)
EXTENDS Integers, Sequences, FiniteSets, TLC

\* ------------------------------------------------------------------ bounds
MaxCalls == 3          \* call() invocations in one behaviour
MaxTime  == 3          \* clock ticks in one behaviour

\* ------------------------------------------------------- program constants
\* One clock tick stands for 2.5 minutes: config.cacheDuration (5 minutes) is 2.
cacheDuration == 2
\* config.retryAttempts
retryAttempts == 3

VARIABLES
    now,              \* Date.now(), in ticks
    token,            \* localStorage['hadhramaut_auth_token'], NoToken when absent
    cache,            \* ApiManager cache: Map cacheKey -> {data, timestamp}
    pendingRequests,  \* ApiManager pendingRequests: Map cacheKey -> flight
    flights,          \* every requestPromise created by request(), in creation order
    callers,          \* every request() invocation, in invocation order
    okAt,             \* history: cacheKey -> time and data of the last successful
                      \* response to a non-mutating call without cache opt-out
    online,           \* navigator.onLine
    eventQueue,       \* AnalyticsSystem state.eventQueue
    isFlushing,       \* AnalyticsSystem state.isFlushing
    eventsToSend,     \* flushQueue's snapshot while its request is awaited
    storedQueue,      \* localStorage['hadhramaut_analytics'] as saveQueue writes it
    recorded,         \* history: number of events recorded; event ids are 1..recorded
    delivered,        \* history: ids of the events the server acknowledged, in order
    lastFlush,        \* history: how the last flushQueue call ended
    trackInFlight,    \* history: track requests of flushQueue awaiting their answer
    storageFull,      \* localStorage.setItem throws (the quota is exhausted)
    session,          \* AnalyticsSystem state: sessionId, userId, sessionStartTime,
                      \* pageViewCount
    sessionStore,     \* localStorage['hadhramaut_analytics_session'] and
                      \* localStorage['hadhramaut_anonymous_id']
    sessionLog,       \* history: ids minted, initializeSession calls and how they
                      \* went, the time of the last saveSession
    auth,             \* AuthenticationSystem state, its stored refresh token and
                      \* the requests its functions await
    retry,            \* one fetchWithRetry invocation followed on a clock in
                      \* seconds: its loop, its timers and their controllers
    isSyncing,        \* SyncService isSyncing
    syncPc,           \* where the running syncAllData is suspended
    offlineStore,     \* localStorage['hadhramaut_offline_data']
    responsesStore,   \* localStorage['hadhramaut_user_responses'], in key order
    snapshotStore,    \* whether the surveys / results snapshots were overwritten
    run,              \* the locals of the running (or last) syncAllData
    nextId,           \* the next Utils.generateId()
    syncLog           \* history: calls, runs, dispatches, acknowledgements

gatewayVars == <<now, token, cache, pendingRequests, flights, callers, okAt>>

teleVars == <<eventQueue, isFlushing, eventsToSend, storedQueue, recorded,
              delivered, lastFlush, trackInFlight, storageFull>>

sessionVars == <<session, sessionStore, sessionLog>>

authVars == <<auth>>

retryVars == <<retry>>

syncVars == <<isSyncing, syncPc, offlineStore, responsesStore, snapshotStore,
              run, nextId, syncLog>>

vars == <<now, token, cache, pendingRequests, flights, callers, okAt, online,
          eventQueue, isFlushing, eventsToSend, storedQueue, recorded,
          delivered, lastFlush, trackInFlight, storageFull, session,
          sessionStore, sessionLog, auth, retry, isSyncing, syncPc,
          offlineStore, responsesStore, snapshotStore, run, nextId, syncLog>>

nonGateway == <<online, teleVars, sessionVars, authVars, retryVars, syncVars>>
nonTelemetry == <<gatewayVars, sessionVars, authVars, retryVars, syncVars>>
nonSync == <<gatewayVars, teleVars, sessionVars, authVars, retryVars>>

\* ------------------------------------------------------------- the gateway
NoToken == "null"
Tokens  == {"t1"}
NoBody  == "undefined"
NoMethod == "undefined"      \* options.method omitted by the caller
Data    == {"v1", "v2"}      \* bodies of 2xx responses

\* The calls the behaviours issue: (endpoint, options.method, options.body).
\* getActiveSurveys() omits the method; the same endpoint is also called with
\* an explicit GET; '/feedback' is a mutating call.
CallShapes ==
    { <<"/surveys/active", NoMethod, NoBody>>,
      <<"/surveys/active", "GET",    NoBody>>,
      <<"/feedback",       "POST",   "b">> }

\* options.retryAttempts as given by the caller; 0 stands for "not given"
\* (and for the falsy 0 itself, which `||` treats alike).
RetryOptions == {0, 2}

\* JSON.stringify of a body
Stringify(body) == <<"json", body>>

\* generateCacheKey: `${endpoint}_${options.method}_${params}`
generateCacheKey(endpoint, method, body) ==
    <<endpoint, method, IF body = NoBody THEN "" ELSE Stringify(body)>>

Keys == { generateCacheKey(s[1], s[2], s[3]) : s \in CallShapes }

\* const isCacheable = options.method === 'GET' && !options.noCache
isCacheable(method, noCache) == method = "GET" /\ ~noCache

\* method: options.method || 'GET'
dispatchMethod(method) == IF method = NoMethod THEN "GET" ELSE method

\* pendingRequests.has(cacheKey)
pendingHas_never(cacheKey) == FALSE
pendingHas_getOnly(cacheKey) == cacheKey[2] = "GET" /\ cacheKey \in DOMAIN pendingRequests
pendingHas(cacheKey) == cacheKey \in DOMAIN pendingRequests

\* options.retryAttempts || config.retryAttempts
attemptsFor_default(given) == retryAttempts
attemptsFor(given) == IF given = 0 THEN retryAttempts ELSE given

\* Map.delete / Map.set
MapDelete_kept(m, k) == m
MapDelete(m, k) == [x \in (DOMAIN m) \ {k} |-> m[x]]
MapSet(m, k, v) == [x \in (DOMAIN m) \cup {k} |-> IF x = k THEN v ELSE m[x]]

\* getAuthToken()
getAuthToken == token

\* the Authorization header of requestOptions: 'Bearer ' + token, or none
authHeader(tok) == IF tok # NoToken THEN <<"Bearer", tok>> ELSE <<>>

\* One fetch(url, requestOptions): the header it carries, and (history) the
\* token the store holds at that moment.
Dispatch(headers) == [auth |-> headers, stored |-> token]

Unsettled(f) == f.state \in {"fetching", "waiting"}

\* The error objects a call rejects with: name, and for ApiError the status,
\* message and errors its constructor stores.  Absent properties are
\* "undefined".
NoError == [name |-> "none", status |-> 0, message |-> "undefined", errors |-> "undefined"]

\* what fetch() rejects with: TypeError on a network failure, AbortError when
\* the attempt's timer fired controller.abort()
FetchErrors == {"TypeError", "AbortError"}
FetchError(name) == [NoError EXCEPT !.name = name]

\* class ApiError: constructor(message, status, errors = [])
ApiError(message, status, errors) ==
    [name |-> "ApiError", status |-> status, message |-> message,
     errors |-> IF errors = "undefined" THEN "[]" ELSE errors]

\* fetchWithRetry, last attempt: if (i === attempts - 1) throw error
rethrow_asApiError(error) == ApiError(error.message, 0, "undefined")
rethrow(error) == error

\* The responses fetch() resolves with: status, whether the content type is
\* application/json, and the body: a JSON object (with its message and errors
\* properties), the JSON text null, text that does not parse, or plain text.
NoResponse == [status |-> 0, json |-> FALSE,
               body |-> [kind |-> "none", message |-> "undefined", errors |-> "undefined"]]
Body(kind, message, errors) == [kind |-> kind, message |-> message, errors |-> errors]
Responses ==
    { [status |-> 422, json |-> TRUE,  body |-> Body("object", "m", "e")],
      [status |-> 500, json |-> FALSE, body |-> Body("text", "undefined", "undefined")],
      [status |-> 500, json |-> TRUE,  body |-> Body("unparsable", "undefined", "undefined")],
      [status |-> 502, json |-> TRUE,  body |-> Body("null", "undefined", "undefined")],
      [status |-> 200, json |-> TRUE,  body |-> Body("unparsable", "undefined", "undefined")] }

\* response.ok
ok(response) == response.status >= 200 /\ response.status <= 299

\* handleResponse(response): what it throws, or NoError when it returns the data
handleResponse(response) ==
    IF response.json /\ response.body.kind = "unparsable"
    THEN \* await response.json() rejects
         FetchError("SyntaxError")
    ELSE IF ~ok(response)
    THEN IF response.body.kind = "null"
         THEN \* data.message on null
              FetchError("TypeError")
         ELSE ApiError(IF response.body.message = "undefined"
                       THEN "default" ELSE response.body.message,
                       response.status, response.body.errors)
    ELSE NoError

\* the fault class of a rejection
FaultClass(error) ==
    IF error.name = "ApiError" THEN "ServiceFault" ELSE error.name

\* the first earlier caller of the same key that is still outstanding, else 0
FirstOutstanding(cacheKey) ==
    LET S == { c \in DOMAIN callers :
                 /\ callers[c].key = cacheKey
                 /\ callers[c].flight # 0
                 /\ Unsettled(flights[callers[c].flight]) }
    IN  IF S = {} THEN 0 ELSE CHOOSE c \in S : \A d \in S : c <= d

\* request(endpoint, options), as its caller runs it: up to the return of
\* the cached data, of the promise in flight, or of a new requestPromise
requestCall(endpoint, method, body, noCache, given) ==
    /\ Len(callers) < MaxCalls
    /\ LET cacheKey == generateCacheKey(endpoint, method, body)
           cacheable == isCacheable(method, noCache)
           has   == cacheable /\ cacheKey \in DOMAIN cache
           hit   == has /\ now - cache[cacheKey].timestamp < cacheDuration
           readOnly == method \in {"GET", NoMethod} /\ ~noCache
           me    == [key |-> cacheKey, readOnly |-> readOnly,
                     cacheable |-> cacheable,
                     first |-> FirstOutstanding(cacheKey)]
       IN  IF hit
           THEN \* return Promise.resolve(cached.data)
                /\ callers' = Append(callers,
                       me @@ [flight |-> 0, data |-> cache[cacheKey].data,
                              stale |-> cache[cacheKey].invalidated])
                /\ UNCHANGED <<cache, pendingRequests, flights>>
           ELSE /\ cache' = IF has THEN MapDelete(cache, cacheKey) ELSE cache
                /\ IF pendingHas(cacheKey)
                   THEN \* return pendingRequests.get(cacheKey)
                        /\ callers' = Append(callers,
                               me @@ [flight |-> pendingRequests[cacheKey],
                                      data |-> "none",
                                      stale |-> flights[pendingRequests[cacheKey]].invalidated])
                        /\ UNCHANGED <<pendingRequests, flights>>
                   ELSE \* fetchWithRetry runs up to its first fetch()
                        LET headers == authHeader(getAuthToken)
                            f == [key |-> cacheKey,
                                  cacheable |-> cacheable,
                                  readOnly |-> readOnly,
                                  given |-> given,
                                  method |-> dispatchMethod(method),
                                  headers |-> headers,
                                  attempts |-> attemptsFor(given),
                                  i |-> 0,
                                  state |-> "fetching",
                                  result |-> "none",
                                  response |-> NoResponse,
                                  error |-> NoError,
                                  invalidated |-> FALSE,
                                  sent |-> <<Dispatch(headers)>>]
                        IN  /\ flights' = Append(flights, f)
                            /\ pendingRequests' =
                                 MapSet(pendingRequests, cacheKey, Len(flights) + 1)
                            /\ callers' = Append(callers,
                                 me @@ [flight |-> Len(flights) + 1, data |-> "none",
                                        stale |-> FALSE])
    /\ UNCHANGED <<now, token, okAt>>

\* request(endpoint, options) called by the application
request(endpoint, method, body, noCache, given) ==
    /\ UNCHANGED nonGateway
    /\ requestCall(endpoint, method, body, noCache, given)

\* fetchWithRetry, catch branch: the attempt's fetch rejects with `cause`
\* (network failure, or the attempt's timer aborted it)
fetchFailsWith(f, cause) ==
    /\ UNCHANGED nonGateway
    /\ f \in DOMAIN flights
    /\ flights[f].state = "fetching"
    /\ IF flights[f].i = flights[f].attempts - 1
       THEN \* throw error; request's .catch: pendingRequests.delete(cacheKey)
            /\ flights' = [flights EXCEPT ![f].state = "rejected",
                                          ![f].result = "TransportFault",
                                          ![f].error = rethrow(FetchError(cause))]
            /\ pendingRequests' = MapDelete(pendingRequests, flights[f].key)
       ELSE \* await delay(Math.pow(2, i) * 1000)
            /\ flights' = [flights EXCEPT ![f].state = "waiting"]
            /\ UNCHANGED pendingRequests
    /\ UNCHANGED <<now, token, cache, callers, okAt>>

fetchFails(f) == fetchFailsWith(f, "TypeError")

\* fetchWithRetry: the delay is over, the loop's next iteration calls fetch()
fetchRetry(f) ==
    /\ UNCHANGED nonGateway
    /\ f \in DOMAIN flights
    /\ flights[f].state = "waiting"
    /\ flights' = [flights EXCEPT
           ![f].i = @ + 1,
           ![f].state = "fetching",
           ![f].sent = Append(@, Dispatch(flights[f].headers))]
    /\ UNCHANGED <<now, token, cache, pendingRequests, callers, okAt>>

\* fetch resolves with a 2xx response: handleResponse returns its data, the
\* .then callback stores it when cacheable and clears the in-flight entry
fetchResponds(f, data) ==
    /\ UNCHANGED nonGateway
    /\ f \in DOMAIN flights
    /\ flights[f].state = "fetching"
    /\ flights' = [flights EXCEPT ![f].state = "resolved", ![f].result = data,
                                  ![f].response = [NoResponse EXCEPT !.status = 200]]
    /\ cache' = IF flights[f].cacheable
                THEN MapSet(cache, flights[f].key,
                            [data |-> data, timestamp |-> now,
                             invalidated |-> flights[f].invalidated])
                ELSE cache
    /\ pendingRequests' = MapDelete(pendingRequests, flights[f].key)
    /\ okAt' = IF flights[f].readOnly
               THEN MapSet(okAt, flights[f].key, [data |-> data, timestamp |-> now])
               ELSE okAt
    /\ UNCHANGED <<now, token, callers>>

\* fetch resolves with `response` and handleResponse throws: request's .catch
\* clears the in-flight entry and passes the error on
fetchRejectedWith(f, response) ==
    /\ UNCHANGED nonGateway
    /\ f \in DOMAIN flights
    /\ flights[f].state = "fetching"
    /\ handleResponse(response) # NoError
    /\ flights' = [flights EXCEPT ![f].state = "rejected",
                                  ![f].result = FaultClass(handleResponse(response)),
                                  ![f].response = response,
                                  ![f].error = handleResponse(response)]
    /\ pendingRequests' = MapDelete(pendingRequests, flights[f].key)
    /\ UNCHANGED <<now, token, cache, callers, okAt>>

\* fetch resolves with a non-2xx response whose body is a JSON object:
\* handleResponse throws ApiError
fetchRejected(f) ==
    fetchRejectedWith(f, [status |-> 422, json |-> TRUE, body |-> Body("object", "m", "e")])

\* setAuthToken(token): login, register
setAuthToken(t) ==
    /\ UNCHANGED nonGateway
    /\ token # t
    /\ token' = t
    /\ UNCHANGED <<now, cache, pendingRequests, flights, callers, okAt>>

\* clearAuthToken(): logout
clearAuthToken ==
    /\ UNCHANGED nonGateway
    /\ token # NoToken
    /\ token' = NoToken
    /\ UNCHANGED <<now, cache, pendingRequests, flights, callers, okAt>>

\* history: the unsettled fetch sequences of `keys` were dispatched before
\* an invalidation of their key
Invalidated(keys) ==
    [f \in DOMAIN flights |->
        IF Unsettled(flights[f]) /\ flights[f].key \in keys
        THEN [flights[f] EXCEPT !.invalidated = TRUE]
        ELSE flights[f]]

\* clearCache(): cache.clear()
clearCache ==
    /\ UNCHANGED nonGateway
    /\ DOMAIN cache # {} \/ \E f \in DOMAIN flights : Unsettled(flights[f])
    /\ cache' = <<>>
    /\ okAt' = <<>>
    /\ flights' = Invalidated({ flights[f].key : f \in DOMAIN flights })
    /\ UNCHANGED <<now, token, pendingRequests, callers>>

\* clearCacheForKey(key): cache.delete(key)
clearCacheForKey(key) ==
    /\ UNCHANGED nonGateway
    /\ \/ key \in DOMAIN cache
       \/ \E f \in DOMAIN flights : Unsettled(flights[f]) /\ flights[f].key = key
    /\ cache' = MapDelete(cache, key)
    /\ okAt' = MapDelete(okAt, key)
    /\ flights' = Invalidated({key})
    /\ UNCHANGED <<now, token, pendingRequests, callers>>

\* setupCacheCleanup: the hourly sweep
cacheCleanup ==
    /\ UNCHANGED nonGateway
    /\ \E k \in DOMAIN cache : now - cache[k].timestamp > cacheDuration
    /\ cache' = [k \in { x \in DOMAIN cache :
                           ~(now - cache[x].timestamp > cacheDuration) } |-> cache[k]]
    /\ UNCHANGED <<now, token, pendingRequests, flights, callers, okAt>>

\* the clock
Tick ==
    /\ UNCHANGED nonGateway
    /\ now < MaxTime
    /\ now' = now + 1
    /\ UNCHANGED <<token, cache, pendingRequests, flights, callers, okAt>>

InitGateway ==
    /\ now = 0
    /\ token = NoToken
    /\ cache = <<>>
    /\ pendingRequests = <<>>
    /\ flights = <<>>
    /\ callers = <<>>
    /\ okAt = <<>>


\* ------------------------------------------------------ the event queue
MaxEvents == 4         \* events recorded in one behaviour

\* config.maxQueueSize, scaled from 100 to 3
maxQueueSize == 3

\* (action, category) of the events recorded: a survey view, a survey
\* submission, a view in the error category
EventKinds == { <<"view", "survey">>, <<"submit", "survey">>, <<"view", "error">> }

NoStored == [present |-> FALSE, events |-> <<>>]
NoFlush  == [outcome |-> "none", batch |-> <<>>, expected |-> <<>>,
             afterFailure |-> FALSE, restoredOver |-> FALSE, live |-> <<>>]

Ids(events) == [i \in DOMAIN events |-> events[i].id]
Range(seq) == { seq[i] : i \in DOMAIN seq }

\* history: of the first n events recorded, those not yet acknowledged, in
\* recording order
Undelivered(n) == SelectSeq([i \in 1..n |-> i], LAMBDA e : e \notin Range(delivered))

\* the queue's own state, threaded through the synchronous calls of a handler
Tele == [eventQueue |-> eventQueue, isFlushing |-> isFlushing,
         eventsToSend |-> eventsToSend, storedQueue |-> storedQueue,
         lastFlush |-> lastFlush, trackInFlight |-> trackInFlight,
         storageFull |-> storageFull]

\* isCriticalEvent(event)
criticalActions == {"submit", "complete", "error"}
isCriticalEvent(event) ==
    event.action \in criticalActions \/ event.category = "error"

\* saveQueue(): localStorage.setItem(storageKey, {events: state.eventQueue, ...})
\* inside try; the catch logs what setItem threw and the item stays as it was
saveQueue_unwinds(t) ==
    IF t.storageFull
    THEN [t EXCEPT !.eventQueue = SubSeq(@, 1, Len(@) - 1)]
    ELSE [t EXCEPT !.storedQueue = [present |-> TRUE, events |-> t.eventQueue]]
saveQueue(t) ==
    IF t.storageFull THEN t
    ELSE [t EXCEPT !.storedQueue = [present |-> TRUE, events |-> t.eventQueue]]

\* clearQueueStorage(): localStorage.removeItem(storageKey)
clearQueueStorage(t) == [t EXCEPT !.storedQueue = NoStored]

\* loadQueue(): the buffer a restart rebuilds from the stored item,
\* queueData.events || []; with no item the buffer stays as constructed, empty
loadQueue(stored) ==
    IF stored.present /\ "events" \in DOMAIN stored THEN stored.events ELSE <<>>

\* addToQueue: if (state.eventQueue.length >= config.maxQueueSize)
queueFull_never(t) == FALSE
queueFull(t) == Len(t.eventQueue) >= maxQueueSize

\* flushQueue: if (state.isFlushing || state.eventQueue.length === 0) return
flushGuard_emptyOnly(t) == Len(t.eventQueue) = 0
flushGuard(t) == t.isFlushing \/ Len(t.eventQueue) = 0

\* state.eventQueue = [...eventsToSend, ...state.eventQueue]
restore_appended(snapshot, live) == live \o snapshot
restore(snapshot, live) == snapshot \o live

\* how the last flush ended (history): its batch, the events that were recorded
\* and unacknowledged when it took its snapshot, whether the flush before it
\* failed, whether that one put its snapshot back in front of newer events, and
\* the events recorded while this one was in flight
Ended(t, outcome, live) ==
    [t EXCEPT !.lastFlush = [outcome |-> outcome,
                             batch |-> Ids(t.eventsToSend),
                             expected |-> t.lastFlush.expected,
                             afterFailure |-> t.lastFlush.afterFailure,
                             restoredOver |-> t.lastFlush.restoredOver,
                             live |-> Ids(live)]]

\* flushQueue() from its call to its await (online), or to its end (offline);
\* n is the number of events recorded so far (history)
flushQueue(t, n) ==
    IF flushGuard(t) THEN t
    ELSE LET began == [t EXCEPT
                 !.isFlushing = TRUE,
                 !.eventsToSend = t.eventQueue,
                 !.eventQueue = <<>>,
                 !.lastFlush = [outcome |-> "awaiting",
                                batch |-> Ids(t.eventQueue),
                                expected |-> Undelivered(n),
                                afterFailure |->
                                    t.lastFlush.outcome \in {"offline", "nosuccess", "threw"},
                                restoredOver |->
                                    t.lastFlush.outcome = "nosuccess" /\ t.lastFlush.live # <<>>,
                                live |-> <<>>]]
         IN  IF online
             THEN \* await ApiManager.request(config.endpoints.track, {method: 'POST', ...})
                  [began EXCEPT !.trackInFlight = @ + 1]
             ELSE \* offline: put the snapshot back, save, finally isFlushing = false
                  LET back == [began EXCEPT
                          !.eventQueue = restore(began.eventsToSend, began.eventQueue)]
                  IN  [Ended(saveQueue(back), "offline", <<>>) EXCEPT
                          !.isFlushing = FALSE, !.eventsToSend = <<>>]

\* the queue's state after a handler
TeleBecomes(t) ==
    /\ eventQueue' = t.eventQueue
    /\ isFlushing' = t.isFlushing
    /\ eventsToSend' = t.eventsToSend
    /\ storedQueue' = t.storedQueue
    /\ lastFlush' = t.lastFlush
    /\ trackInFlight' = t.trackInFlight
    /\ storageFull' = t.storageFull

\* addToQueue(event), as its caller runs it
addToQueueCall(action, category) ==
    /\ recorded < MaxEvents
    /\ LET event == [id |-> recorded + 1, action |-> action, category |-> category]
           t1 == IF queueFull(Tele) THEN flushQueue(Tele, recorded) ELSE Tele
           t2 == [t1 EXCEPT !.eventQueue = Append(@, event)]
           t3 == saveQueue(t2)
           t4 == IF isCriticalEvent(event) THEN flushQueue(t3, recorded + 1) ELSE t3
       IN  TeleBecomes(t4)
    /\ recorded' = recorded + 1

\* addToQueue(event) from trackEvent, trackSurvey or a listener
addToQueue(action, category) ==
    /\ addToQueueCall(action, category)
    /\ UNCHANGED <<delivered, online, nonTelemetry>>

\* setupAutoFlush: the flushInterval timer
autoFlush ==
    /\ Len(eventQueue) > 0
    /\ TeleBecomes(flushQueue(Tele, recorded))
    /\ UNCHANGED <<recorded, delivered, online, nonTelemetry>>

\* AnalyticsSystem.flushQueue() called by the application at any moment
flush ==
    /\ TeleBecomes(flushQueue(Tele, recorded))
    /\ UNCHANGED <<recorded, delivered, online, nonTelemetry>>

\* flushQueue resumes: the request resolved with response.success
flushSucceeds ==
    /\ isFlushing
    /\ TeleBecomes([Ended(clearQueueStorage(Tele), "success", eventQueue) EXCEPT
                       !.isFlushing = FALSE, !.eventsToSend = <<>>,
                       !.trackInFlight = @ - 1])
    /\ delivered' = delivered \o Ids(eventsToSend)
    /\ UNCHANGED <<recorded, online, nonTelemetry>>

\* flushQueue resumes: the request resolved with a response without success
flushRefused ==
    /\ isFlushing
    /\ LET back == [Tele EXCEPT !.eventQueue = restore(eventsToSend, eventQueue)]
       IN  TeleBecomes([Ended(saveQueue(back), "nosuccess", eventQueue) EXCEPT
                           !.isFlushing = FALSE, !.eventsToSend = <<>>,
                           !.trackInFlight = @ - 1])
    /\ UNCHANGED <<recorded, delivered, online, nonTelemetry>>

\* flushQueue resumes: the request rejected (TransportFault after the last
\* attempt, or ServiceFault); catch: saveQueue(); finally isFlushing = false
flushThrows ==
    /\ isFlushing
    /\ TeleBecomes([Ended(saveQueue(Tele), "threw", eventQueue) EXCEPT
                       !.isFlushing = FALSE, !.eventsToSend = <<>>,
                       !.trackInFlight = @ - 1])
    /\ UNCHANGED <<recorded, delivered, online, nonTelemetry>>

\* setupAutoFlush: the beforeunload listener, navigator.sendBeacon being
\* available: the buffer is handed to sendBeacon, which acknowledges nothing,
\* and the stored item is removed.  The page may stay (the unload cancelled).
beforeunload ==
    /\ Len(eventQueue) > 0
    /\ TeleBecomes(clearQueueStorage(Tele))
    /\ UNCHANGED <<recorded, delivered, online, nonTelemetry>>

\* the connectivity signal: navigator.onLine alone
goOffline ==
    /\ online
    /\ online' = FALSE
    /\ UNCHANGED <<gatewayVars, teleVars, sessionVars, authVars, retryVars, syncVars>>

goOnline ==
    /\ ~online
    /\ online' = TRUE
    /\ UNCHANGED <<gatewayVars, teleVars, sessionVars, authVars, retryVars, syncVars>>

\* the origin's storage quota is used up, by this page or by another one, and
\* freed again: localStorage.setItem throws while it is used up
storageFills ==
    /\ ~storageFull
    /\ storageFull' = TRUE
    /\ UNCHANGED <<eventQueue, isFlushing, eventsToSend, storedQueue, recorded,
                   delivered, lastFlush, trackInFlight, online, nonTelemetry>>

storageFrees ==
    /\ storageFull
    /\ storageFull' = FALSE
    /\ UNCHANGED <<eventQueue, isFlushing, eventsToSend, storedQueue, recorded,
                   delivered, lastFlush, trackInFlight, online, nonTelemetry>>

\* AnalyticsSystem.loadQueue() on an empty store
InitTelemetry ==
    /\ online = TRUE
    /\ eventQueue = <<>>
    /\ isFlushing = FALSE
    /\ eventsToSend = <<>>
    /\ storedQueue = NoStored
    /\ recorded = 0
    /\ delivered = <<>>
    /\ lastFlush = NoFlush
    /\ trackInFlight = 0
    /\ storageFull = FALSE

\* ------------------------------------------------------------ the session
MaxLoads == 3          \* initializeSession calls in one behaviour

\* config.sessionTimeout, scaled from 30 minutes to 2 ticks
sessionTimeout == 2

NoSession == [present |-> FALSE]
NoId == <<"null">>
NoUser == <<"null">>
Users == { <<"user", 1>> }
NoSessionLog == [minted |-> 0, loads |-> 0, outcomes |-> <<>>, user |-> NoUser,
                 savedAt |-> 0]

\* generateSessionId(): 'session_' + Date.now() + '_' + random; the n-th id minted
generateSessionId(n) == <<"session", n>>

\* now - savedSession.timestamp
sessionAge_sinceStart(saved) == now - saved.sessionStartTime
sessionAge(saved) == now - saved.timestamp

\* saveSession(): setItem('hadhramaut_analytics_session', {..., timestamp: Date.now()});
\* not inside a try: when setItem throws the item stays as it was
saveSession(st, store) ==
    IF storageFull THEN store
    ELSE [store EXCEPT !.saved =
             [present |-> TRUE, sessionId |-> st.sessionId, userId |-> st.userId,
              sessionStartTime |-> st.sessionStartTime,
              pageViewCount |-> st.pageViewCount, timestamp |-> now]]

\* initializeSession(), AuthenticationSystem.getCurrentUser() returning `user`
initializeSession(user) ==
    /\ sessionLog.loads < MaxLoads
    /\ LET savedSession == sessionStore.saved
           reuse == savedSession.present /\ sessionAge(savedSession) < sessionTimeout
           stored == sessionStore.anonymousId
           \* generateAnonymousId(): the stored id, or a new one that is stored
           mint == user = NoUser /\ stored = NoId
           anonymousId == IF stored # NoId THEN stored
                          ELSE <<"anon", sessionLog.minted + 2>>
           threw == ~reuse /\ mint /\ storageFull
           st == IF reuse
                 THEN [sessionId |-> savedSession.sessionId,
                       userId |-> savedSession.userId,
                       sessionStartTime |-> savedSession.sessionStartTime,
                       pageViewCount |-> savedSession.pageViewCount]
                 ELSE [sessionId |-> generateSessionId(sessionLog.minted + 1),
                       sessionStartTime |-> now,
                       pageViewCount |-> 0,
                       userId |-> IF threw THEN session.userId
                                  ELSE IF user # NoUser THEN user ELSE anonymousId]
           store1 == IF ~reuse /\ mint /\ ~storageFull
                     THEN [sessionStore EXCEPT !.anonymousId = anonymousId]
                     ELSE sessionStore
       IN  /\ session' = st
           /\ sessionStore' = IF threw THEN sessionStore ELSE saveSession(st, store1)
           /\ sessionLog' = [sessionLog EXCEPT
                  !.minted = IF reuse THEN @ ELSE IF mint THEN @ + 2 ELSE @ + 1,
                  !.loads = @ + 1,
                  !.outcomes = Append(@, IF reuse THEN "reused" ELSE "new"),
                  !.user = user,
                  !.savedAt = IF threw \/ storageFull THEN @ ELSE now]
    /\ UNCHANGED <<online, gatewayVars, teleVars, authVars, retryVars, syncVars>>

\* trackPageView(): count the page view, queue the page_view event of the
\* system category, saveSession()
trackPageView ==
    /\ session.sessionId # NoId
    /\ addToQueueCall("page_view", "system")
    /\ session' = [session EXCEPT !.pageViewCount = @ + 1]
    /\ sessionStore' = saveSession(session', sessionStore)
    /\ sessionLog' = [sessionLog EXCEPT !.savedAt = IF storageFull THEN @ ELSE now]
    /\ UNCHANGED <<delivered, online, gatewayVars, authVars, retryVars, syncVars>>

InitSession ==
    /\ session = [sessionId |-> NoId, userId |-> NoId, sessionStartTime |-> 0,
                  pageViewCount |-> 0]
    /\ sessionStore = [saved |-> NoSession, anonymousId |-> NoId]
    /\ sessionLog = NoSessionLog

\* ----------------------------------------------------- authentication
MaxAuthCalls == 4      \* login(), logout() and refreshToken() calls in one behaviour

\* state.isAuthenticated; state.tokenRefreshInterval (set or null);
\* localStorage['hadhramaut_refresh_token'] (set or not); whether a login,
\* a logout or a refresh request is awaited; and (history) the calls made and
\* whether logout() has completed with no login succeeding since;
\* state.loginAttempts and state.lastLoginAttempt; whether handleLogin awaits
\* its login() (the submit button is disabled meanwhile); and (history) the
\* submissions made, those refused, the login requests sent and how the last
\* submission went; localStorage['hadhramaut_user_data'] and
\* localStorage['hadhramaut_session'] (set or not); and (history) the logout()
\* calls completed and how the request of the last one went
NoTime == -1           \* null
NoAuth == [isAuthenticated |-> FALSE, tokenRefreshInterval |-> FALSE,
           refreshToken |-> FALSE, loggingIn |-> FALSE, loggingOut |-> FALSE,
           refreshing |-> FALSE, calls |-> 0, loggedOut |-> FALSE,
           loginAttempts |-> 0, lastLoginAttempt |-> NoTime,
           submitting |-> FALSE, submissions |-> 0, refused |-> 0,
           requests |-> 0, lastSubmission |-> "none",
           storedUser |-> FALSE, storedSession |-> FALSE,
           logouts |-> 0, lastLogout |-> "none"]

\* the rest of the state, which no function of AuthenticationSystem writes
nonAuth == <<now, cache, pendingRequests, flights, callers, okAt, online,
             teleVars, sessionVars, retryVars, syncVars>>

\* logout's finally block: clearStoredData(), the state fields,
\* stopTokenRefresh()
logoutFinally_timerLeft(a) ==
    [a EXCEPT !.isAuthenticated = FALSE,
              !.refreshToken = FALSE, !.loggingOut = FALSE, !.loggedOut = TRUE,
              !.storedUser = FALSE, !.storedSession = FALSE,
              !.logouts = @ + 1]
logoutFinally(a) ==
    [a EXCEPT !.isAuthenticated = FALSE, !.tokenRefreshInterval = FALSE,
              !.refreshToken = FALSE, !.loggingOut = FALSE, !.loggedOut = TRUE,
              !.storedUser = FALSE, !.storedSession = FALSE,
              !.logouts = @ + 1]

\* logout(silent) up to its await, or to its end when not authenticated
logoutFrom(a) ==
    IF a.isAuthenticated
    THEN \* await ApiManager.request(config.endpoints.logout, {method: 'POST'})
         /\ auth' = [a EXCEPT !.loggingOut = TRUE]
         /\ UNCHANGED token
    ELSE /\ auth' = logoutFinally([a EXCEPT !.lastLogout = "local"])
         /\ token' = NoToken

\* login(credentials) up to its await
login ==
    /\ auth.calls < MaxAuthCalls
    /\ auth' = [auth EXCEPT !.loggingIn = TRUE, !.calls = @ + 1]
    /\ UNCHANGED <<token, nonAuth>>

\* login resumes: response.success; setStoredToken, the state fields,
\* startTokenRefresh()
loginSucceeds(t) ==
    /\ auth.loggingIn
    /\ token' = t
    /\ auth' = [auth EXCEPT !.loggingIn = FALSE, !.isAuthenticated = TRUE,
                            !.tokenRefreshInterval = TRUE, !.loggedOut = FALSE,
                            !.loginAttempts = 0,
                            !.storedUser = TRUE, !.storedSession = TRUE]
    /\ UNCHANGED nonAuth

\* login resumes: a response without success, or the request rejected
loginFails ==
    /\ auth.loggingIn
    /\ auth' = [auth EXCEPT !.loggingIn = FALSE]
    /\ UNCHANGED <<token, nonAuth>>

\* logout(silent) called by the application
logout ==
    /\ auth.calls < MaxAuthCalls
    /\ logoutFrom([auth EXCEPT !.calls = @ + 1])
    /\ UNCHANGED nonAuth

\* logout resumes: its request resolved, or rejected and the catch only
\* logged; the finally block
logoutSettles(resolved) ==
    /\ auth.loggingOut
    /\ auth' = logoutFinally(
           [auth EXCEPT !.lastLogout = IF resolved THEN "acknowledged" ELSE "failed"])
    /\ token' = NoToken
    /\ UNCHANGED nonAuth

\* refreshToken(), from startTokenRefresh's timer or called by the
\* application, up to its await; it returns null when not authenticated or
\* when no refresh token is stored.  A call made while a refresh request is
\* in flight attaches to it (same endpoint, method and body).
refreshToken ==
    /\ auth.calls < MaxAuthCalls
    /\ auth' = [auth EXCEPT
           !.calls = @ + 1,
           !.refreshing = @ \/ (auth.isAuthenticated /\ auth.refreshToken)]
    /\ UNCHANGED <<token, nonAuth>>

\* refreshToken resumes: response.success; setStoredToken(response.data.token)
refreshSucceeds(t) ==
    /\ auth.refreshing
    /\ token' = t
    /\ auth' = [auth EXCEPT !.refreshing = FALSE]
    /\ UNCHANGED nonAuth

\* refreshToken resumes: a response without success; return null
refreshRefused ==
    /\ auth.refreshing
    /\ auth' = [auth EXCEPT !.refreshing = FALSE]
    /\ UNCHANGED <<token, nonAuth>>

\* refreshToken resumes: the request rejected; catch: await logout(true)
refreshFails ==
    /\ auth.refreshing
    /\ logoutFrom([auth EXCEPT !.refreshing = FALSE])
    /\ UNCHANGED nonAuth

\* localStorage['hadhramaut_refresh_token'] is set.  refreshToken() reads the
\* key and clearStoredData() removes it; the store is shared by the pages of
\* the origin, and the one that writes the key is not AuthenticationSystem
\* (setStoredRefreshToken has no caller).
refreshTokenStored ==
    /\ ~auth.refreshToken
    /\ auth' = [auth EXCEPT !.refreshToken = TRUE]
    /\ UNCHANGED <<token, nonAuth>>

\* config.maxLoginAttempts, scaled from 5 to 2, and config.lockoutDuration,
\* scaled from 15 minutes to 2 ticks
maxLoginAttempts == 2
lockoutDuration == 2
MaxSubmissions == 5    \* submissions of the login form in one behaviour

\* checkLoginRestrictions(): whether the submission is refused, and the state
\* it leaves; timeSinceLastAttempt = now - (state.lastLoginAttempt || 0)
checkLoginRestrictions_open(a, t) == [restricted |-> FALSE, auth |-> a]
checkLoginRestrictions(a, t) ==
    IF a.loginAttempts >= maxLoginAttempts
    THEN LET timeSinceLastAttempt ==
                 t - (IF a.lastLoginAttempt = NoTime THEN 0 ELSE a.lastLoginAttempt)
         IN  IF timeSinceLastAttempt < lockoutDuration
             THEN [restricted |-> TRUE, auth |-> a]
             ELSE [restricted |-> FALSE,
                   auth |-> [a EXCEPT !.loginAttempts = 0,
                                      !.lastLoginAttempt = NoTime]]
    ELSE [restricted |-> FALSE, auth |-> a]

\* recordLoginAttempt(success)
recordLoginAttempt(a, success, t) ==
    IF success
    THEN [a EXCEPT !.loginAttempts = 0, !.lastLoginAttempt = NoTime]
    ELSE [a EXCEPT !.loginAttempts = @ + 1, !.lastLoginAttempt = t]

\* handleLogin(event), the login form submitted, up to its return or to the
\* await of login(credentials); `valid` when validateEmail and
\* validatePassword accept the input
handleLogin(valid) ==
    /\ ~auth.submitting
    /\ auth.submissions < MaxSubmissions
    /\ LET checked == checkLoginRestrictions(auth, now)
           a == [checked.auth EXCEPT !.submissions = @ + 1]
       IN  auth' = IF checked.restricted
                   THEN [a EXCEPT !.lastSubmission = "refused", !.refused = @ + 1]
                   ELSE IF ~valid
                   THEN [a EXCEPT !.lastSubmission = "invalid"]
                   ELSE [a EXCEPT !.lastSubmission = "sent",
                                  !.submitting = TRUE,
                                  !.loggingIn = TRUE,
                                  !.requests = @ + 1]
    /\ UNCHANGED <<token, nonAuth>>

\* handleLogin resumes: login() returned a response with success, having
\* stored the token and set the state fields
handleLoginSucceeds(t) ==
    /\ auth.submitting
    /\ token' = t
    /\ auth' = [auth EXCEPT !.loggingIn = FALSE, !.isAuthenticated = TRUE,
                            !.tokenRefreshInterval = TRUE, !.loggedOut = FALSE,
                            !.loginAttempts = 0, !.submitting = FALSE,
                            !.storedUser = TRUE, !.storedSession = TRUE]
    /\ UNCHANGED nonAuth

\* handleLogin resumes: login() returned a response without success, or
\* threw; recordLoginAttempt(false)
handleLoginFails ==
    /\ auth.submitting
    /\ auth' = recordLoginAttempt(
                   [auth EXCEPT !.loggingIn = FALSE, !.submitting = FALSE], FALSE, now)
    /\ UNCHANGED <<token, nonAuth>>

InitAuth == auth = NoAuth

\* ------------------------------------------- fetchWithRetry on the clock
MaxRetryTime == 9      \* seconds followed in one behaviour

\* requestOptions.timeout: config.timeout, scaled from 30 s to 2 s
timeout == 2

\* the loop before its call; `timers` holds the abort timers set and neither
\* cleared nor fired, `aborted` the attempts whose controller was aborted,
\* `wake` the time the timer of delay() is due; history: `log` holds when each
\* attempt began, when and how it ended, `waits` the delays asked for
NoRetry == [pc |-> "idle", attempts |-> 0, i |-> 0, clock |-> 0, timers |-> {},
            aborted |-> {}, wake |-> 0, log |-> <<>>, waits |-> <<>>]

nonRetry == <<gatewayVars, online, teleVars, sessionVars, authVars, syncVars>>

\* Math.pow(2, i) * 1000 milliseconds, in seconds
backoff_linear(i) == 2 * i
backoff(i) == 2 ^ i

\* controller.abort() of attempt k's timer: each iteration makes its own
\* AbortController and passes its signal to its own fetch, so the abort
\* rejects the fetch in flight only when that is attempt k's
abortsFetch_shared(k, r) == r.pc = "fetching"
abortsFetch(k, r) == r.pc = "fetching" /\ k = r.i

\* one iteration up to its await: new AbortController, setTimeout(abort,
\* options.timeout), fetch(url, {...options, signal})
startAttempt(r, i) ==
    [r EXCEPT !.i = i,
              !.pc = "fetching",
              !.timers = @ \cup {[attempt |-> i, due |-> r.clock + timeout]},
              !.log = Append(@, [began |-> r.clock, ended |-> 0, cause |-> "none"])]

\* the catch branch: if (i === attempts - 1) throw error; else
\* await delay(Math.pow(2, i) * 1000).  The attempt's timer is not cleared.
caught(r, cause) ==
    LET r1 == [r EXCEPT !.log[r.i + 1].ended = r.clock,
                        !.log[r.i + 1].cause = cause]
    IN  IF r.i = r.attempts - 1
        THEN [r1 EXCEPT !.pc = "threw"]
        ELSE [r1 EXCEPT !.pc = "waiting",
                        !.wake = r.clock + backoff(r.i),
                        !.waits = Append(@, backoff(r.i))]

\* fetchWithRetry(url, requestOptions, options.retryAttempts || config.retryAttempts)
fetchWithRetry(given) ==
    /\ retry.pc = "idle"
    /\ retry' = startAttempt([retry EXCEPT !.attempts = attemptsFor(given)], 0)
    /\ UNCHANGED nonRetry

\* fetch resolves with a response: clearTimeout(timeoutId); return response
attemptResolves ==
    /\ retry.pc = "fetching"
    /\ retry' = [retry EXCEPT
           !.pc = "returned",
           !.timers = { t \in @ : t.attempt # retry.i },
           !.log[retry.i + 1].ended = retry.clock,
           !.log[retry.i + 1].cause = "response"]
    /\ UNCHANGED nonRetry

\* fetch rejects on a network failure
attemptFails ==
    /\ retry.pc = "fetching"
    /\ retry' = caught(retry, "TypeError")
    /\ UNCHANGED nonRetry

\* the timer of attempt k fires, at its due time or later: controller.abort();
\* a fetch holding that controller's signal rejects with AbortError
abortTimer(k) ==
    /\ \E t \in retry.timers :
          /\ t.attempt = k
          /\ t.due <= retry.clock
          /\ LET r1 == [retry EXCEPT !.timers = @ \ {t}, !.aborted = @ \cup {k}]
             IN  retry' = IF abortsFetch(k, r1) THEN caught(r1, "AbortError") ELSE r1
    /\ UNCHANGED nonRetry

\* the timer of delay() fires, at its due time or later: the next iteration
delayOver ==
    /\ retry.pc = "waiting"
    /\ retry.wake <= retry.clock
    /\ retry' = startAttempt(retry, retry.i + 1)
    /\ UNCHANGED nonRetry

\* a second passes
second ==
    /\ retry.clock < MaxRetryTime
    /\ retry' = [retry EXCEPT !.clock = @ + 1]
    /\ UNCHANGED nonRetry

InitRetry == retry = NoRetry

\* ------------------------------------------------------- synchronisation
MaxItems     == 2      \* mutations the application enqueues in one behaviour
MaxRuns      == 2      \* sync runs started in one behaviour
MaxSyncCalls == 2      \* syncAllData() calls in one behaviour

\* item.type of the enqueued mutations; "rating" is a type the switch of
\* syncOfflineData has no case for
ItemTypes == {"survey_response", "rating"}
\* the types syncOfflineData dispatches a request for
DispatchedTypes == {"survey_response", "survey_creation", "user_feedback"}
SurveyIds == {"s1", "s2"}

\* the locals of a run; failedSyncs and the history fields (the requests the
\* run has issued, the item ids and survey ids whose request the server
\* acknowledged) are kept after the run, until the next one starts; `before`
\* holds the item ids acknowledged in the runs before this one (history)
NoRun == [offlineData |-> <<>>, idx |-> 0, successfulSyncs |-> <<>>,
          failedSyncs |-> <<>>, userResponses |-> <<>>, rIdx |-> 0,
          dispatches |-> 0, acked |-> {}, ackedResponses |-> {},
          before |-> {}]
NoLog == [calls |-> 0, lastCall |-> "none", runs |-> 0, enqueued |-> 0]

\* the engine's state and the store, threaded through the synchronous
\* stretches of syncAllData
Sync == [isSyncing |-> isSyncing, syncPc |-> syncPc, offlineStore |-> offlineStore,
         responsesStore |-> responsesStore, snapshotStore |-> snapshotStore,
         run |-> run, nextId |-> nextId, syncLog |-> syncLog]

SyncBecomes(s) ==
    /\ isSyncing' = s.isSyncing
    /\ syncPc' = s.syncPc
    /\ offlineStore' = s.offlineStore
    /\ responsesStore' = s.responsesStore
    /\ snapshotStore' = s.snapshotStore
    /\ run' = s.run
    /\ nextId' = s.nextId
    /\ syncLog' = s.syncLog

\* one ApiManager request issued by the run (history)
Dispatched(s) == [s EXCEPT !.run.dispatches = @ + 1]

\* LocalDataService.saveOfflineData(type, data): read the queue, push
\* {type, data, timestamp, id}, write it back.  `list` holds the ids of the
\* items of `type` when the caller passes an array as the type.
saveOfflineData(store, type, data, list, id) ==
    Append(store, [id |-> id, type |-> type, data |-> data, list |-> list])

\* LocalDataService.saveUserResponse(surveyId, responses): read the records,
\* set records[surveyId] = {responses, timestamp}, write them back
saveUserResponse(store, surveyId, responses) ==
    LET rec == [surveyId |-> surveyId, responses |-> responses, synced |-> FALSE]
    IN  IF \E i \in DOMAIN store : store[i].surveyId = surveyId
        THEN [i \in DOMAIN store |->
                 IF store[i].surveyId = surveyId THEN rec ELSE store[i]]
        ELSE Append(store, rec)

\* syncOfflineData, after its loop:
\*   remainingData = offlineData.filter(item => !successfulSyncs.includes(item.id));
\*   LocalDataService.saveOfflineData(remainingData)
writeBack_cleared(store, offlineData, successfulSyncs, id) == <<>>
writeBack_replaced(store, offlineData, successfulSyncs, id) ==
    SelectSeq(offlineData, LAMBDA item : item.id \notin Range(successfulSyncs))
writeBack(store, offlineData, successfulSyncs, id) ==
    LET remainingData ==
            SelectSeq(offlineData, LAMBDA item : item.id \notin Range(successfulSyncs))
    IN  saveOfflineData(store, "[array]", "undefined", Ids(remainingData), id)

\* syncAllData: if (isSyncing) return
alreadySyncing_never == FALSE
alreadySyncing == isSyncing

\* syncAllData: if (!navigator.onLine) return
notOnLine_never(onLine) == FALSE
notOnLine(onLine) == ~onLine

\* the end of syncAllData: lastSyncTime, toast, finally isSyncing = false
finishRun_stuck(s) ==
    [s EXCEPT !.syncPc = "idle", !.run.userResponses = <<>>, !.run.rIdx = 0]
finishRun(s) ==
    [s EXCEPT !.isSyncing = FALSE, !.syncPc = "idle",
              !.run.userResponses = <<>>, !.run.rIdx = 0]

RECURSIVE nextUnsynced(_, _)
\* syncUserResponses' loop from position j: the next record without synced
nextUnsynced(userResponses, j) ==
    IF j > Len(userResponses) \/ ~userResponses[j].synced THEN j
    ELSE nextUnsynced(userResponses, j + 1)

\* syncUserResponses from position j up to its next await, or to the end of the run
syncUserResponsesFrom(s, j) ==
    LET k == nextUnsynced(s.run.userResponses, j)
    IN  IF k <= Len(s.run.userResponses)
        THEN Dispatched([s EXCEPT !.syncPc = "responses", !.run.rIdx = k])
        ELSE finishRun(s)

\* syncUserResponses: const userResponses = LocalDataService.getUserResponses()
syncUserResponses_skipped(s) == finishRun(s)
syncUserResponses(s) ==
    syncUserResponsesFrom([s EXCEPT !.run.userResponses = s.responsesStore], 1)

\* updateLocalData up to its first await: ApiManager.getActiveSurveys()
updateLocalData(s) == Dispatched([s EXCEPT !.syncPc = "surveys"])

skipUnknown_toEnd(offlineData, i, successfulSyncs) ==
    [idx |-> Len(offlineData) + 1, successfulSyncs |-> successfulSyncs]
RECURSIVE skipUnknown(_, _, _)
\* syncOfflineData's loop from position i: items of a type without a case are
\* pushed to successfulSyncs without a request
skipUnknown(offlineData, i, successfulSyncs) ==
    IF i > Len(offlineData) \/ offlineData[i].type \in DispatchedTypes
    THEN [idx |-> i, successfulSyncs |-> successfulSyncs]
    ELSE skipUnknown(offlineData, i + 1, Append(successfulSyncs, offlineData[i].id))

\* syncOfflineData from position i up to its next await; after the loop the
\* write-back, then phase 2
syncOfflineDataFrom(s, i) ==
    LET r  == skipUnknown(s.run.offlineData, i, s.run.successfulSyncs)
        s1 == [s EXCEPT !.run.idx = r.idx, !.run.successfulSyncs = r.successfulSyncs]
    IN  IF r.idx <= Len(s.run.offlineData)
        THEN Dispatched([s1 EXCEPT !.syncPc = "offline"])
        ELSE LET done == [s1 EXCEPT !.run.offlineData = <<>>, !.run.idx = 0,
                                       !.run.successfulSyncs = <<>>]
             IN  IF Len(r.successfulSyncs) > 0
                 THEN updateLocalData([done EXCEPT
                          !.offlineStore = writeBack(s1.offlineStore, s1.run.offlineData,
                                                     r.successfulSyncs, s1.nextId),
                          !.nextId = @ + 1])
                 ELSE updateLocalData(done)

\* syncAllData() up to its first await, navigator.onLine being onLine
syncAllDataCall(onLine) ==
    /\ syncLog.calls < MaxSyncCalls
    /\ LET called == [Sync EXCEPT !.syncLog.calls = @ + 1]
       IN  IF alreadySyncing
           THEN SyncBecomes([called EXCEPT !.syncLog.lastCall = "busy"])
           ELSE IF notOnLine(onLine)
           THEN SyncBecomes([called EXCEPT !.syncLog.lastCall = "offline"])
           ELSE /\ syncLog.runs < MaxRuns
                /\ LET started == [called EXCEPT
                           !.isSyncing = TRUE,
                           !.syncLog.lastCall = "started",
                           !.syncLog.runs = @ + 1,
                           !.run = [NoRun EXCEPT
                               !.offlineData = offlineStore,
                               !.before = run.before \cup run.acked]]
                   IN  IF Len(offlineStore) = 0
                       THEN SyncBecomes(updateLocalData(started))
                       ELSE SyncBecomes(syncOfflineDataFrom(started, 1))

\* syncAllData() on demand or from startAutoSync's timer
syncAllData ==
    /\ syncAllDataCall(online)
    /\ UNCHANGED <<online, nonSync>>

\* startAutoSync's setInterval callback: if (navigator.onLine) syncAllData()
autoSync ==
    /\ online
    /\ syncAllData

\* The window's 'online' event: navigator.onLine is true and the listeners
\* run.  The listener of SyncService.startAutoSync calls syncAllData().
\* App.handleOnline (script.js) updates the page's indicator and posts the
\* page's own 'hadhramaut_offline' list, neither of which is part of this
\* state.  AnalyticsSystem registers no listener for the event.
onlineEvent ==
    /\ ~online
    /\ online' = TRUE
    /\ syncAllDataCall(TRUE)
    /\ UNCHANGED nonSync

\* The run resumes after the request it awaits, `resolved` when that request
\* resolved.  syncOfflineData: push the id to successfulSyncs, or the item to
\* failedSyncs in the catch, and go on with the loop.  updateLocalData:
\* saveSurveys and the second request, then saveResults, or the catch; phase 3
\* follows.  syncUserResponses: flag the response and save it, or the catch,
\* and go on with the loop.
resumed(s, resolved) ==
    CASE s.syncPc = "offline" ->
            LET item == s.run.offlineData[s.run.idx]
                s1 == IF resolved
                      THEN [s EXCEPT !.run.successfulSyncs = Append(@, item.id),
                                     !.run.acked = @ \cup {item.id}]
                      ELSE [s EXCEPT !.run.failedSyncs = Append(@, item)]
            IN  syncOfflineDataFrom(s1, s.run.idx + 1)
      [] s.syncPc = "surveys" ->
            IF resolved
            THEN Dispatched([s EXCEPT !.snapshotStore.surveys = TRUE,
                                      !.syncPc = "results"])
            ELSE syncUserResponses(s)
      [] s.syncPc = "results" ->
            IF resolved
            THEN syncUserResponses([s EXCEPT !.snapshotStore.results = TRUE])
            ELSE syncUserResponses(s)
      [] s.syncPc = "responses" ->
            IF resolved
            THEN LET r == s.run.userResponses[s.run.rIdx]
                 IN  syncUserResponsesFrom(
                         [s EXCEPT
                             !.run.userResponses[s.run.rIdx].synced = TRUE,
                             !.responsesStore = saveUserResponse(@, r.surveyId, r.responses),
                             !.run.ackedResponses = @ \cup {r.surveyId}],
                         s.run.rIdx + 1)
            ELSE syncUserResponsesFrom(s, s.run.rIdx + 1)

\* syncOfflineData resumes: the item's request resolved
offlineItemSynced ==
    /\ syncPc = "offline"
    /\ SyncBecomes(resumed(Sync, TRUE))
    /\ UNCHANGED <<online, nonSync>>

\* syncOfflineData resumes: the item's request rejected
offlineItemFailed ==
    /\ syncPc = "offline"
    /\ SyncBecomes(resumed(Sync, FALSE))
    /\ UNCHANGED <<online, nonSync>>

\* updateLocalData resumes: getActiveSurveys resolved; saveSurveys, then
\* ApiManager.getRecentResults()
surveysFetched ==
    /\ syncPc = "surveys"
    /\ SyncBecomes(resumed(Sync, TRUE))
    /\ UNCHANGED <<online, nonSync>>

\* updateLocalData resumes: getRecentResults resolved; saveResults; phase 3
resultsFetched ==
    /\ syncPc = "results"
    /\ SyncBecomes(resumed(Sync, TRUE))
    /\ UNCHANGED <<online, nonSync>>

\* updateLocalData's catch: either request rejected; phase 3
updateFailed ==
    /\ syncPc \in {"surveys", "results"}
    /\ SyncBecomes(resumed(Sync, FALSE))
    /\ UNCHANGED <<online, nonSync>>

\* syncUserResponses resumes: submitSurveyResponse resolved
responseSynced ==
    /\ syncPc = "responses"
    /\ SyncBecomes(resumed(Sync, TRUE))
    /\ UNCHANGED <<online, nonSync>>

\* syncUserResponses resumes: submitSurveyResponse rejected
responseFailed ==
    /\ syncPc = "responses"
    /\ SyncBecomes(resumed(Sync, FALSE))
    /\ UNCHANGED <<online, nonSync>>

\* the application queues a mutation: LocalDataService.saveOfflineData(type, data)
enqueueOffline(type) ==
    /\ syncLog.enqueued < MaxItems
    /\ offlineStore' = saveOfflineData(offlineStore, type, "p", <<>>, nextId)
    /\ nextId' = nextId + 1
    /\ syncLog' = [syncLog EXCEPT !.enqueued = @ + 1]
    /\ UNCHANGED <<isSyncing, syncPc, responsesStore, snapshotStore, run, online, nonSync>>

\* the application records the user's answers to a survey not answered yet:
\* LocalDataService.saveUserResponse(surveyId, responses)
recordResponse(surveyId) ==
    /\ \A i \in DOMAIN responsesStore : responsesStore[i].surveyId # surveyId
    /\ responsesStore' = saveUserResponse(responsesStore, surveyId, "r")
    /\ UNCHANGED <<isSyncing, syncPc, offlineStore, snapshotStore, run, nextId,
                   syncLog, online, nonSync>>

\* getSyncStatus()
getSyncStatus ==
    [isSyncing |-> isSyncing,
     offlineDataCount |-> Len(offlineStore),
     unsyncedResponses |->
         Cardinality({ i \in DOMAIN responsesStore : ~responsesStore[i].synced })]

InitSync ==
    /\ isSyncing = FALSE
    /\ syncPc = "idle"
    /\ offlineStore = <<>>
    /\ responsesStore = <<>>
    /\ snapshotStore = [surveys |-> FALSE, results |-> FALSE]
    /\ run = NoRun
    /\ nextId = 1
    /\ syncLog = NoLog

Init ==
    /\ InitGateway /\ InitTelemetry /\ InitSession /\ InitAuth /\ InitRetry
    /\ InitSync

\* The event queue of one page lifetime.
NextTelemetry ==
    \/ \E k \in EventKinds : addToQueue(k[1], k[2])
    \/ autoFlush
    \/ flush
    \/ flushSucceeds
    \/ flushRefused
    \/ flushThrows
    \/ goOffline
    \/ goOnline

SpecTelemetry == Init /\ [][NextTelemetry]_vars

\* The event queue over a store whose quota runs out and is freed again, with
\* the page-exit listener.
NextStorage ==
    \/ \E k \in EventKinds : addToQueue(k[1], k[2])
    \/ autoFlush
    \/ flushSucceeds
    \/ flushRefused
    \/ flushThrows
    \/ goOffline
    \/ goOnline
    \/ storageFills
    \/ storageFrees
    \/ beforeunload

SpecStorage == Init /\ [][NextStorage]_vars

\* The session over page loads of a signed-in or an anonymous visitor, page
\* views and the clock.
NextSession ==
    \/ \E user \in Users \cup {NoUser} : initializeSession(user)
    \/ trackPageView
    \/ Tick

SpecSession == Init /\ [][NextSession]_vars

\* Sign-in, sign-out and token refresh, with calls of the application
\* through the gateway.
NextAuth ==
    \/ login
    \/ \E t \in Tokens : loginSucceeds(t)
    \/ loginFails
    \/ logout
    \/ \E resolved \in BOOLEAN : logoutSettles(resolved)
    \/ refreshToken
    \/ \E t \in Tokens : refreshSucceeds(t)
    \/ refreshRefused
    \/ refreshFails
    \/ refreshTokenStored
    \/ request("/surveys/active", "GET", NoBody, FALSE, 1)
    \/ \E f \in DOMAIN flights : fetchResponds(f, "v1")

SpecAuth == Init /\ [][NextAuth]_vars

\* The sync engine with the application queueing mutations and responses.
NextSync ==
    \/ syncAllData
    \/ offlineItemSynced
    \/ offlineItemFailed
    \/ surveysFetched
    \/ resultsFetched
    \/ updateFailed
    \/ responseSynced
    \/ responseFailed
    \/ \E type \in ItemTypes : enqueueOffline(type)
    \/ \E surveyId \in SurveyIds : recordResponse(surveyId)
    \/ goOffline
    \/ goOnline

SpecSync == Init /\ [][NextSync]_vars

\* One engine replaying survey responses, always online, syncAllData() being
\* called while no run is in progress (a call during a run returns at the
\* guard).  Every request a run awaits settles: fetchWithRetry makes a bounded
\* number of attempts and the timer of each attempt aborts a fetch that does
\* not answer.
SyncSettles ==
    \/ offlineItemSynced
    \/ offlineItemFailed
    \/ surveysFetched
    \/ resultsFetched
    \/ updateFailed
    \/ responseSynced
    \/ responseFailed

NextSyncRun ==
    \/ (~isSyncing /\ syncAllData)
    \/ SyncSettles
    \/ enqueueOffline("survey_response")
    \/ recordResponse("s1")

SpecSyncRun == Init /\ [][NextSyncRun]_vars /\ WF_vars(SyncSettles)

\* item.data.surveyId and item.data.responses of a queued survey response:
\* the payload "p" the application queues is a response to survey s1
Payloads == [p |-> [surveyId |-> "s1", responses |-> "r"]]
Field(data, name) == Payloads[data][name]

\* ApiManager.submitSurveyResponse / createSurvey / getActiveSurveys /
\* getRecentResults, and the '/feedback' request: (endpoint, method, body),
\* the endpoint as the parts of its template string
submitSurveyResponse(surveyId, responses) ==
    <<<<"/surveys/", surveyId, "/responses">>, "POST", Stringify(responses)>>
createSurvey(surveyData) == <<<<"/surveys">>, "POST", Stringify(surveyData)>>
submitFeedback(data) == <<<<"/feedback">>, "POST", Stringify(data)>>
getActiveSurveys == <<<<"/surveys", "/active?limit=10">>, NoMethod, NoBody>>
getRecentResults == <<<<"/results", "/recent?limit=5">>, NoMethod, NoBody>>

\* syncOfflineData's switch (item.type)
itemCall(item) ==
    CASE item.type = "survey_response" ->
            submitSurveyResponse(Field(item.data, "surveyId"), Field(item.data, "responses"))
      [] item.type = "survey_creation" -> createSurvey(item.data)
      [] item.type = "user_feedback" -> submitFeedback(item.data)

\* the ApiManager call the run in state s is suspended at
runCall(s) ==
    CASE s.syncPc = "offline" -> itemCall(s.run.offlineData[s.run.idx])
      [] s.syncPc = "surveys" -> getActiveSurveys
      [] s.syncPc = "results" -> getRecentResults
      [] s.syncPc = "responses" ->
            LET r == s.run.userResponses[s.run.rIdx]
            IN  submitSurveyResponse(r.surveyId, r.responses)

\* the run in state s issues the call it is suspended at, if any
runRequests(s) ==
    IF s.isSyncing
    THEN requestCall(runCall(s)[1], runCall(s)[2], runCall(s)[3], FALSE, 0)
    ELSE UNCHANGED gatewayVars

\* syncAllData() with its first ApiManager call
syncAllDataOverGateway ==
    /\ ~isSyncing
    /\ syncAllDataCall(online)
    /\ runRequests([isSyncing |-> isSyncing', syncPc |-> syncPc', run |-> run'])
    /\ UNCHANGED <<online, teleVars, sessionVars, authVars, retryVars>>

\* The promise the run awaits has settled (the last one request() returned:
\* the run is the only caller): the run resumes and issues its next call.
runResumes ==
    /\ isSyncing
    /\ callers # <<>>
    /\ LET c == callers[Len(callers)]
           settled == c.flight = 0 \/ ~Unsettled(flights[c.flight])
           resolved == c.flight = 0 \/ flights[c.flight].state = "resolved"
       IN  /\ settled
           /\ SyncBecomes(resumed(Sync, resolved))
           /\ runRequests(resumed(Sync, resolved))
    /\ UNCHANGED <<online, teleVars, sessionVars, authVars, retryVars>>

\* One engine, always online, replaying queued survey responses of the same
\* content through the gateway.
NextReplay ==
    \/ enqueueOffline("survey_response")
    \/ syncAllDataOverGateway
    \/ runResumes
    \/ \E f \in DOMAIN flights :
          \/ fetchResponds(f, "v1")
          \/ fetchRejected(f)
          \/ fetchFails(f)
          \/ fetchRetry(f)

SpecReplay == Init /\ [][NextReplay]_vars

\* The connectivity signal with its listeners, over a queue that records
\* non-critical events and an engine with nothing queued.
NextConnectivity ==
    \/ addToQueue("view", "survey")
    \/ autoFlush
    \/ flushSucceeds
    \/ goOffline
    \/ onlineEvent
    \/ surveysFetched
    \/ resultsFetched
    \/ updateFailed

SpecConnectivity == Init /\ [][NextConnectivity]_vars

\* The gateway under concurrent callers and transport failures.  The calls
\* issued: <<endpoint, method, body, noCache, retryAttempts>>.
GatewayCalls ==
    { <<"/surveys/active", "GET", NoBody, FALSE, 0>>,
      <<"/surveys/active", "GET", NoBody, TRUE,  2>>,
      <<"/feedback", "POST", "b", FALSE, 0>> }

GatewayShapes == { <<c[1], c[2], c[3]>> : c \in GatewayCalls }

NextGateway ==
    \/ \E c \in GatewayCalls : request(c[1], c[2], c[3], c[4], c[5])
    \/ \E f \in 1..MaxCalls : fetchFails(f)
    \/ \E f \in 1..MaxCalls : fetchRetry(f)
    \/ \E f \in 1..MaxCalls, data \in Data : fetchResponds(f, data)
    \/ \E f \in 1..MaxCalls : fetchRejected(f)

SpecGateway == Init /\ [][NextGateway]_vars

\* The fault paths: transport failures of either cause, and the responses
\* handleResponse throws on, for a read with two attempts and a mutating call
\* with one: <<endpoint, method, body, retryAttempts>>.
FaultCalls ==
    { <<"/surveys/active", "GET", NoBody, 2>>, <<"/feedback", "POST", "b", 1>> }

NextFaults ==
    \/ \E c \in FaultCalls : request(c[1], c[2], c[3], FALSE, c[4])
    \/ \E f \in 1..MaxCalls, cause \in FetchErrors : fetchFailsWith(f, cause)
    \/ \E f \in 1..MaxCalls : fetchRetry(f)
    \/ \E f \in 1..MaxCalls : fetchResponds(f, "v1")
    \/ \E f \in 1..MaxCalls, response \in Responses : fetchRejectedWith(f, response)

SpecFaults == Init /\ [][NextFaults]_vars

\* The bearer header while the stored token changes (login, logout).
MaxBearerCalls == 2

NextBearer ==
    \/ /\ Len(callers) < MaxBearerCalls
       /\ \E s \in GatewayShapes, given \in RetryOptions :
             request(s[1], s[2], s[3], FALSE, given)
    \/ \E f \in 1..MaxCalls : fetchFails(f)
    \/ \E f \in 1..MaxCalls : fetchRetry(f)
    \/ \E f \in 1..MaxCalls, data \in Data : fetchResponds(f, data)
    \/ \E f \in 1..MaxCalls : fetchRejected(f)
    \/ \E t \in Tokens : setAuthToken(t)
    \/ clearAuthToken

SpecBearer == Init /\ [][NextBearer]_vars

\* The cache over time: read-only calls, expiry, invalidation and the sweep.
CacheShapes ==
    { <<"/surveys/active", NoMethod, NoBody>>, <<"/surveys/active", "GET", NoBody>> }

NextCache ==
    \/ \E s \in CacheShapes, noCache \in BOOLEAN :
          request(s[1], s[2], s[3], noCache, 1)
    \/ \E f \in 1..MaxCalls : fetchFails(f)
    \/ \E f \in 1..MaxCalls, data \in Data : fetchResponds(f, data)
    \/ \E f \in 1..MaxCalls : fetchRejected(f)
    \/ clearCache
    \/ \E k \in Keys : clearCacheForKey(k)
    \/ cacheCleanup
    \/ Tick

SpecCache == Init /\ [][NextCache]_vars

\* ================================================================ claims
\* ---------------------------------------------------------------- helpers
Settled(c) == callers[c].flight = 0 \/ ~Unsettled(flights[callers[c].flight])

\* what the caller's promise settles with: the cached data, the response data,
\* or the fault
Outcome(c) ==
    IF callers[c].flight = 0 THEN callers[c].data
    ELSE flights[callers[c].flight].result

\* callers issued while an earlier caller of the same key was outstanding
Joined == { c \in DOMAIN callers : callers[c].first # 0 }

\* C1 (as stated): all callers of one cache key issued while the first of them
\* is outstanding are served by one dispatch sequence and settle with the same
\* value or the same fault.
C1_AllCallersSettleAlike ==
    \A c \in Joined :
        LET d == callers[c].first
        IN  /\ callers[c].flight # 0 => callers[c].flight = callers[d].flight
            /\ (Settled(c) /\ Settled(d)) => Outcome(c) = Outcome(d)

\* C1 (amended): at most one dispatch sequence is outstanding per cache key,
\* and every caller issued while the first caller of its key is outstanding,
\* unless it is answered from the cache, is attached to that first caller's
\* dispatch sequence and so settles with its value or fault.
C1_OneSequencePerKey ==
    /\ \A f, g \in DOMAIN flights :
          (f # g /\ Unsettled(flights[f]) /\ Unsettled(flights[g]))
              => flights[f].key # flights[g].key
    /\ \A c \in Joined :
          callers[c].flight # 0 =>
              /\ callers[c].flight = callers[callers[c].first].flight
              /\ (Settled(c) /\ Settled(callers[c].first))
                     => Outcome(c) = Outcome(callers[c].first)

\* three callers of one key attached to one sequence that resolved with a value
C1_Witness ==
    \E f \in DOMAIN flights :
        /\ flights[f].state = "resolved"
        /\ Cardinality({ c \in DOMAIN callers : callers[c].flight = f }) = 3
        /\ \E c \in Joined : callers[c].flight = f

\* C5 (as stated): a non-mutating call without cache opt-out (method GET or
\* omitted) that follows a successful response to an identical call by less
\* than cacheDuration is answered with that response's data without a dispatch;
\* one that follows it by cacheDuration or more is not answered from the cache.
C5_ReadOnlyCallsAreCached ==
    [][ Len(callers') = Len(callers) + 1 =>
          LET c == callers'[Len(callers')]
          IN  (c.readOnly /\ c.key \in DOMAIN okAt) =>
                 IF now - okAt[c.key].timestamp < cacheDuration
                 THEN c.flight = 0 /\ c.data = okAt[c.key].data /\ flights' = flights
                 ELSE c.flight # 0 ]_vars

\* C7 (as stated): every dispatch carries the bearer header of the token the
\* store holds when the dispatch is issued, and none when the store holds none.
C7_HeaderMatchesStoreAtDispatch ==
    \A f \in DOMAIN flights : \A j \in DOMAIN flights[f].sent :
        flights[f].sent[j].auth = authHeader(flights[f].sent[j].stored)

\* C8: a call whose every attempt fails at transport level has made exactly N
\* dispatches when it rejects, N being its caller's retry count (3 when none
\* is given), no call ever makes more than N, every caller attached to the key
\* meanwhile shares that one sequence and its TransportFault.
C8_ExactlyNAttempts ==
    \A f \in DOMAIN flights :
        LET N == IF flights[f].given = 0 THEN retryAttempts ELSE flights[f].given
        IN  /\ Len(flights[f].sent) <= N
            /\ flights[f].result = "TransportFault" =>
                  /\ Len(flights[f].sent) = N
                  /\ \A c \in Joined :
                        (callers[c].flight # 0 /\ callers[callers[c].first].flight = f)
                            => /\ callers[c].flight = f
                               /\ Outcome(c) = "TransportFault"

\* three concurrent callers of one key, one sequence of three attempts, all reject
C8_Witness ==
    \E f \in DOMAIN flights :
        /\ flights[f].result = "TransportFault"
        /\ Len(flights[f].sent) = 3
        /\ Cardinality({ c \in DOMAIN callers :
                           callers[c].flight = f /\ Outcome(c) = "TransportFault" }) = 3
        /\ Len(flights) = 1

IsIncreasing(seq) == \A i, j \in DOMAIN seq : i < j => seq[i] < seq[j]

\* C2 (as stated): a successful flush that follows a failed flush delivers
\* exactly the events recorded and not yet delivered when it started, each once
\* and in recording order (record A, B, C; the flush fails with a transport
\* fault; record D; the next flush succeeds with [A, B, C, D]).
C2_NextSuccessfulFlushDeliversAll ==
    (lastFlush.outcome = "success" /\ lastFlush.afterFailure)
        => lastFlush.batch = lastFlush.expected

\* C10: when a flush ends with a response without success and puts its
\* snapshot back, the buffer becomes the snapshot followed by the events
\* recorded during the flight, each part in its order; and the events the
\* server has acknowledged were acknowledged in recording order, none twice.
C10_SnapshotRestoredInFront ==
    [][ /\ (isFlushing /\ lastFlush'.outcome = "nosuccess")
             => eventQueue' = eventsToSend \o eventQueue
        /\ IsIncreasing(delivered') ]_vars

\* a flush restored its snapshot in front of newer events, and the next flush
\* delivered all of them in recording order
C10_Witness ==
    /\ lastFlush.outcome = "success"
    /\ lastFlush.restoredOver
    /\ Len(lastFlush.batch) >= 2
    /\ lastFlush.batch = lastFlush.expected
    /\ delivered = lastFlush.batch

RECURSIVE IsSubSeq(_, _)
\* the elements of a occur in b, in a's order
IsSubSeq(a, b) ==
    IF a = <<>> THEN TRUE
    ELSE IF b = <<>> THEN FALSE
    ELSE IF Head(a) = Head(b) THEN IsSubSeq(Tail(a), Tail(b))
    ELSE IsSubSeq(a, Tail(b))

RunOver == ~isSyncing /\ syncLog.runs > 0

\* C3 (as stated): after a sync run, no mutation whose request the server
\* acknowledged during that run is in the persisted offline queue.
C3_AcknowledgedItemsLeaveTheQueue ==
    RunOver => \A i \in DOMAIN offlineStore : offlineStore[i].id \notin run.acked

\* C4 (as stated): after a sync run, every pending response whose submission
\* succeeded in that run is still stored, now with the confirmation flag, and
\* getStatus() counts only the records whose submission did not succeed.
C4_ConfirmedResponsesAreFlagged ==
    RunOver =>
        /\ \A surveyId \in run.ackedResponses :
              \E i \in DOMAIN responsesStore :
                  responsesStore[i].surveyId = surveyId /\ responsesStore[i].synced
        /\ getSyncStatus.unsyncedResponses
              <= Len(responsesStore) - Cardinality(run.ackedResponses)

\* C6: a syncAllData() call made while a run is in progress changes nothing
\* but the count of calls: no request is issued, the guard, the position of
\* the run, its locals and every persisted collection stay as they are.
C6_CallWhileSyncingIsNoOp ==
    [][ (syncLog'.calls # syncLog.calls /\ isSyncing) =>
            /\ syncLog'.lastCall = "busy"
            /\ syncLog'.runs = syncLog.runs
            /\ UNCHANGED <<isSyncing, syncPc, offlineStore, responsesStore,
                           snapshotStore, run, nextId>> ]_vars

\* a call was made while a run was suspended in phase 1, and found it busy
C6_Witness ==
    /\ isSyncing
    /\ syncPc = "offline"
    /\ syncLog.lastCall = "busy"

\* C9: after a sync run, the mutations whose request failed in that run are
\* all in the persisted offline queue, each with its id, type and payload as
\* enqueued, in their original relative order.
C9_FailedItemsStayQueued ==
    RunOver => IsSubSeq(run.failedSyncs, offlineStore)

\* a second run in which two mutations failed and the queue was written back
\* (the fourth stored item is the one this run's write-back added)
C9_Witness ==
    /\ RunOver
    /\ syncLog.runs = 2
    /\ Len(run.failedSyncs) >= 2
    /\ Len(offlineStore) >= 4

\* the event the step just recorded (in the buffer or in the snapshot)
NewEvent ==
    CHOOSE e \in Range(eventsToSend' \o eventQueue') : e.id = recorded'

\* C11: at most one track request of the queue is awaiting its answer at any
\* time; while a flush is running no step hands another batch to the gateway
\* or replaces the snapshot, and a step that neither records nor ends the
\* flush changes nothing of the queue; a flushQueue() call with an empty buffer
\* changes nothing of the queue either.
C11_SingleFlight ==
    /\ [](trackInFlight <= 1)
    /\ [][ /\ isFlushing =>
                /\ trackInFlight' <= trackInFlight
                /\ isFlushing' => eventsToSend' = eventsToSend
                /\ (isFlushing' /\ recorded' = recorded) =>
                      UNCHANGED <<eventQueue, storedQueue, lastFlush>>
           /\ (~isFlushing /\ Len(eventQueue) = 0 /\ recorded' = recorded) =>
                UNCHANGED <<eventQueue, isFlushing, eventsToSend, storedQueue,
                            lastFlush, trackInFlight>> ]_vars

\* a critical event was recorded while a flush was in flight: its flushQueue()
\* call returned at the guard and the event waits in the buffer
C11_Witness ==
    /\ isFlushing
    /\ trackInFlight = 1
    /\ \E i \in DOMAIN eventQueue : isCriticalEvent(eventQueue[i])

\* C12 (as stated): whenever no flush is in flight, the stored copy of the
\* queue holds exactly the events of the buffer, in the same order, so that
\* loadQueue() after a restart rebuilds the buffer.
C12_StoredCopyMirrorsBuffer ==
    ~isFlushing => loadQueue(storedQueue) = eventQueue

\* C16 (as stated): when a record brings the buffer to the capacity bound
\* (online, no flush running), a flush is started within that record.
C16_FlushWhenCapacityReached ==
    [][ (/\ recorded' = recorded + 1
         /\ online /\ ~isFlushing
         /\ Len(eventQueue) + 1 = maxQueueSize) => isFlushing' ]_vars

\* C16 (amended): a record made while the buffer already holds the capacity
\* bound or more, and no flush is running, flushes the buffered events before
\* it appends the new one: online the batch handed to the gateway is the
\* buffer as it was and the new event is alone in the buffer, offline the
\* flush puts the events back and the new event follows them.  A record of a
\* non-critical event made below the bound starts no flush, also when it
\* brings the buffer to the bound.
C16_FlushWhenAlreadyAtCapacity ==
    [][ recorded' = recorded + 1 =>
          /\ (~isFlushing /\ Len(eventQueue) >= maxQueueSize) =>
                IF online
                THEN /\ isFlushing'
                     /\ trackInFlight' = 1
                     /\ eventsToSend' = eventQueue
                     /\ Ids(eventQueue') = <<recorded'>>
                ELSE /\ ~isFlushing'
                     /\ lastFlush'.outcome = "offline"
                     /\ Ids(eventQueue') = Append(Ids(eventQueue), recorded')
          /\ (Len(eventQueue) < maxQueueSize /\ ~isCriticalEvent(NewEvent)) =>
                /\ UNCHANGED <<isFlushing, eventsToSend, trackInFlight, lastFlush>>
                /\ Ids(eventQueue') = Append(Ids(eventQueue), recorded') ]_vars

\* a non-critical event was recorded on a full buffer: the full buffer is in
\* flight and the new event is alone in the buffer
C16_Witness ==
    /\ isFlushing
    /\ Len(eventsToSend) = maxQueueSize
    /\ Len(eventQueue) = 1
    /\ ~isCriticalEvent(eventQueue[1])
    /\ eventQueue[1].id = recorded

\* C17 (as stated): the record of a critical event while online and while no
\* flush is running starts a flush within that record, and the batch handed to
\* the gateway contains that event.
C17_CriticalEventIsInTheBatch ==
    [][ (/\ recorded' = recorded + 1
         /\ online /\ ~isFlushing
         /\ isCriticalEvent(NewEvent))
            => /\ isFlushing'
               /\ recorded' \in Range(Ids(eventsToSend')) ]_vars

\* the flights fetch() answered with a non-2xx response
Refused == { f \in DOMAIN flights :
               flights[f].response # NoResponse /\ ~ok(flights[f].response) }

\* C13 (as stated): a non-2xx response is not retried, no dispatch follows it,
\* and the call rejects with an ApiError that carries the response's status
\* and the message and field errors of its body.
C13_Non2xxRejectsWithServiceFault ==
    \A f \in Refused :
        LET r == flights[f].response
            e == flights[f].error
        IN  /\ flights[f].state = "rejected"
            /\ Len(flights[f].sent) = flights[f].i + 1
            /\ e.name = "ApiError"
            /\ e.status = r.status
            /\ r.body.message # "undefined" => e.message = r.body.message
            /\ r.body.errors # "undefined" => e.errors = r.body.errors

C15_PendingHoldsOnlyUnsettled ==
    /\ \A k \in DOMAIN pendingRequests :
          /\ flights[pendingRequests[k]].key = k
          /\ Unsettled(flights[pendingRequests[k]])
    /\ \A f \in DOMAIN flights :
          Unsettled(flights[f]) =>
              /\ flights[f].key \in DOMAIN pendingRequests
              /\ pendingRequests[flights[f].key] = f
    /\ \A c, d \in DOMAIN callers :
          (d < c /\ callers[c].flight # 0 /\ callers[c].first = 0)
              => callers[d].flight # callers[c].flight

\* three calls of one key, one after the other: the first rejected after its
\* last attempt failed, the second on an unreadable body, the third resolved;
\* the in-flight map is empty
C15_Witness ==
    /\ Len(flights) = 3
    /\ flights[1].result = "TransportFault"
    /\ flights[2].error.name = "SyntaxError"
    /\ flights[3].state = "resolved"
    /\ DOMAIN pendingRequests = {}

\* C18 (as stated): each transition of the connectivity signal to online
\* triggers a flush attempt of the event queue and a sync run: with events
\* buffered, no flush running and no run in progress, the transition starts
\* both.
C18_OnlineStartsFlushAndSync ==
    [][ (/\ ~online /\ online'
         /\ Len(eventQueue) > 0 /\ ~isFlushing
         /\ ~isSyncing)
            => /\ isSyncing'
               /\ isFlushing' ]_vars

\* C19: the guard is set exactly while a run is suspended in one of its
\* phases; every run that sets it clears it again, whether its requests
\* succeed or fail; and a syncAllData() call made online while the guard is
\* clear starts a run, however the runs before it went.
C19_RunReturnsToIdle ==
    /\ [](isSyncing <=> syncPc # "idle")
    /\ isSyncing ~> ~isSyncing
    /\ [][ (syncLog'.calls # syncLog.calls /\ ~isSyncing /\ online)
              => syncLog'.lastCall = "started" ]_vars

\* a run in which a mutation, the refresh and a response submission were all
\* dispatched and all failed has released the guard
C19_Witness ==
    /\ ~isSyncing
    /\ syncLog.runs = 1
    /\ Len(run.failedSyncs) = 1
    /\ run.dispatches = 3
    /\ ~snapshotStore.surveys
    /\ run.ackedResponses = {}
    /\ \E i \in DOMAIN responsesStore : ~responsesStore[i].synced

\* the first position from i on of an item a request is dispatched for
\* (Len + 1 when there is none), and of a response record not flagged synced
FirstFrom(seq, i, Wanted(_)) ==
    LET S == { k \in i..Len(seq) : Wanted(seq[k]) }
    IN  IF S = {} THEN Len(seq) + 1 ELSE CHOOSE k \in S : \A l \in S : k <= l
IsSent(item) == item.type \in DispatchedTypes
IsPending(record) == ~record.synced

PhaseOf(pc) ==
    CASE pc = "offline" -> 1
      [] pc \in {"surveys", "results"} -> 2
      [] pc = "responses" -> 3
      [] OTHER -> 0

\* the step issued a request of the run
RunDispatches == run'.dispatches = (IF isSyncing THEN run.dispatches ELSE 0) + 1

\* C21: a run issues a request only when it is started or when the request it
\* awaits settles, and then at most one.  The mutations are dispatched from
\* the list read from the persisted queue when the run started, in the order
\* of that list, each one the first mutation with a request after the one
\* before.  The refresh is dispatched only when no mutation with a request is
\* left after the one that settled, the response submissions only when the
\* refresh has ended, and a run never goes back to an earlier phase.
C21_OneAtATimeInQueueOrder ==
    [][ /\ run'.dispatches # run.dispatches => RunDispatches
        /\ (~isSyncing /\ isSyncing') => run'.offlineData \in {offlineStore, <<>>}
        /\ (isSyncing /\ syncPc' = "offline") => run'.offlineData = run.offlineData
        /\ (RunDispatches /\ syncPc' = "offline") =>
              LET from == IF isSyncing THEN run.idx + 1 ELSE 1
              IN  /\ isSyncing => syncPc = "offline"
                  /\ run'.idx = FirstFrom(run'.offlineData, from, IsSent)
        /\ (RunDispatches /\ syncPc' = "surveys") =>
              IF isSyncing
              THEN /\ syncPc = "offline"
                   /\ FirstFrom(run.offlineData, run.idx + 1, IsSent) > Len(run.offlineData)
              ELSE FirstFrom(offlineStore, 1, IsSent) > Len(offlineStore)
        /\ (RunDispatches /\ syncPc' = "results") => syncPc = "surveys"
        /\ (RunDispatches /\ syncPc' = "responses") =>
              syncPc \in {"surveys", "results", "responses"}
        /\ (isSyncing /\ isSyncing') => PhaseOf(syncPc') >= PhaseOf(syncPc) ]_vars

\* a run that dispatched two mutations, the first having failed, then both
\* requests of the refresh, and is now submitting a response
C21_Witness ==
    /\ syncPc = "responses"
    /\ Len(run.failedSyncs) = 1
    /\ \E a \in run.acked : run.failedSyncs[1].id < a
    /\ snapshotStore.results
    /\ run.dispatches = 5

\* C22: a record made while the store refuses writes ends like any other
\* record: the new event is the last of the unacknowledged events, the ones
\* before it keep their order, and the stored item is left as it was.  The
\* flushes of the record are started as without the fault: on a buffer at the
\* capacity bound the buffered events are handed to the gateway (online) or
\* put back by the flush (offline); below the bound a critical event is
\* handed to the gateway with the buffer (online) or is in the batch of the
\* flush that puts it back (offline).
C22_RecordSurvivesStorageFault ==
    [][ (recorded' = recorded + 1 /\ storageFull) =>
          /\ Ids(eventsToSend' \o eventQueue') =
                Append(Ids(eventsToSend \o eventQueue), recorded')
          /\ storedQueue' = storedQueue
          /\ (~isFlushing /\ Len(eventQueue) >= maxQueueSize) =>
                IF online
                THEN isFlushing' /\ trackInFlight' = 1 /\ eventsToSend' = eventQueue
                ELSE ~isFlushing' /\ lastFlush'.outcome = "offline"
          /\ (~isFlushing /\ Len(eventQueue) < maxQueueSize /\ isCriticalEvent(NewEvent)) =>
                IF online
                THEN /\ isFlushing' /\ trackInFlight' = 1
                     /\ Ids(eventsToSend') = Append(Ids(eventQueue), recorded')
                ELSE /\ ~isFlushing' /\ lastFlush'.outcome = "offline"
                     /\ lastFlush'.batch = Append(Ids(eventQueue), recorded') ]_vars

\* a critical event recorded while the store refused writes is in flight with
\* the event recorded before it, and the stored item was never written
C22_Witness ==
    /\ storageFull
    /\ isFlushing
    /\ Len(eventsToSend) = 2
    /\ isCriticalEvent(eventsToSend[2])
    /\ eventsToSend[2].id = recorded
    /\ ~storedQueue.present

C24_EachMutationIsDispatched ==
    [][ (RunDispatches /\ syncPc' = "offline") =>
          LET call == itemCall(run'.offlineData[run'.idx])
          IN  /\ Len(flights') = Len(flights) + 1
              /\ flights'[Len(flights')].key = generateCacheKey(call[1], call[2], call[3])
              /\ flights'[Len(flights')].i = 0
              /\ Len(flights'[Len(flights')].sent) = 1
              /\ callers'[Len(callers')].flight = Len(flights') ]_vars

\* two queued mutations of the same type and payload were dispatched in one
\* run, each with a fetch sequence of its own, and both were acknowledged
C24_Witness ==
    /\ Len(offlineStore) >= 2
    /\ offlineStore[1].type = offlineStore[2].type
    /\ offlineStore[1].data = offlineStore[2].data
    /\ run.acked = {offlineStore[1].id, offlineStore[2].id}
    /\ Len(flights) >= 2
    /\ flights[1].key = flights[2].key
    /\ flights[1].state = "resolved" /\ flights[2].state = "resolved"

\* the session ids of the record stored and of the state (history: the ids a
\* new session must differ from)
KnownSessionIds ==
    {session.sessionId} \cup
        (IF sessionStore.saved.present THEN {sessionStore.saved.sessionId} ELSE {})

\* C25: initializeSession takes the session id, the user id and the page
\* view count from the stored session record when less than sessionTimeout
\* has passed since that record was last saved.  Otherwise it mints a session
\* id, sets the page view count to 0, and for a visitor who is not signed in
\* takes the stored anonymous id when there is one.
C25_SessionReusedWithinTimeout ==
    [][ sessionLog'.loads = sessionLog.loads + 1 =>
          IF sessionStore.saved.present /\ now - sessionLog.savedAt < sessionTimeout
          THEN /\ session'.sessionId = sessionStore.saved.sessionId
               /\ session'.userId = sessionStore.saved.userId
               /\ session'.pageViewCount = sessionStore.saved.pageViewCount
          ELSE /\ session'.sessionId \notin KnownSessionIds
               /\ session'.sessionId # NoId
               /\ session'.pageViewCount = 0
               /\ (sessionLog'.user = NoUser /\ sessionStore.anonymousId # NoId) =>
                     /\ session'.userId = sessionStore.anonymousId
                     /\ sessionStore'.anonymousId = sessionStore.anonymousId ]_vars

\* three page loads of an anonymous visitor: the second within the timeout
\* of the first, the third after the timeout, with a new session id, no page
\* view counted and the anonymous id minted at the first
C25_Witness ==
    /\ sessionLog.outcomes = <<"new", "reused", "new">>
    /\ sessionLog.user = NoUser
    /\ session.userId = <<"anon", 2>>
    /\ session.sessionId = generateSessionId(3)
    /\ session.pageViewCount = 0
    /\ now = 3

\* C26 (as stated, for the offline mutations): a run dispatches no mutation
\* that the server acknowledged in an earlier run.
C26_AcknowledgedIsNotDispatchedAgain ==
    [][ (RunDispatches /\ syncPc' = "offline") =>
            run'.offlineData[run'.idx].id \notin run'.before ]_vars

\* C27 (as stated): while the request of a flush is awaited, every event of
\* its snapshot is in the stored copy of the queue, so that loadQueue() after
\* a restart has it.
C27_SnapshotStaysStored ==
    isFlushing => Range(Ids(eventsToSend)) \subseteq Range(Ids(loadQueue(storedQueue)))

C29_MutatingCallsAttachToo ==
    [][ Len(callers') = Len(callers) + 1 =>
          LET c == callers'[Len(callers')]
          IN  (/\ ~c.readOnly
               /\ \E f \in DOMAIN flights :
                     Unsettled(flights[f]) /\ flights[f].key = c.key) =>
                 /\ flights' = flights
                 /\ pendingRequests' = pendingRequests
                 /\ c.flight \in DOMAIN flights
                 /\ Unsettled(flights[c.flight])
                 /\ flights[c.flight].key = c.key ]_vars

\* two POSTs made while the same POST was in flight have settled with the
\* one response of that fetch sequence, which made a single dispatch
C29_Witness ==
    \E f \in DOMAIN flights :
        /\ flights[f].method = "POST"
        /\ flights[f].state = "resolved"
        /\ Len(flights[f].sent) = 1
        /\ Cardinality({ c \in Joined : callers[c].flight = f }) = 2

\* C30 (as stated): no cacheable call is answered with the response of a
\* fetch sequence that was dispatched before its key was invalidated and was
\* still unsettled then: it is neither attached to such a sequence nor given
\* a cache entry such a sequence wrote.
C30_NothingFromBeforeInvalidation ==
    \A c \in DOMAIN callers : callers[c].cacheable => ~callers[c].stale

\* C31: while a run is in progress, no step takes out of the persisted queue,
\* or moves or alters in it, a mutation that is not in the list the run read
\* when it started; a mutation enqueued after that read and before the
\* write-back is such a mutation until the run ends, so it is in the queue
\* when the run ends.
C31_EnqueuedDuringRunStaysQueued ==
    [][ isSyncing =>
            \A i \in DOMAIN offlineStore :
                offlineStore[i].id \notin Range(Ids(run.offlineData)) =>
                    /\ i \in DOMAIN offlineStore'
                    /\ offlineStore'[i] = offlineStore[i] ]_vars

\* the first run is over and has written its remaining list back; before that
\* entry the queue holds a mutation with a request that the run neither got
\* acknowledged nor saw fail and that is not in the list written back: it was
\* enqueued after the run had read the queue
C31_Witness ==
    /\ RunOver
    /\ syncLog.runs = 1
    /\ \E i, j \in DOMAIN offlineStore :
          /\ i < j
          /\ offlineStore[j].type = "[array]"
          /\ offlineStore[i].type \in DispatchedTypes
          /\ offlineStore[i].id \notin Range(offlineStore[j].list)
          /\ offlineStore[i].id \notin run.acked
          /\ offlineStore[i].id \notin Range(Ids(run.failedSyncs))

\* C32 (as stated): in every reachable state the in-memory event buffer holds
\* at most maxQueueSize events, also while offline and while a flush is in
\* flight.
C32_BufferWithinCapacity == Len(eventQueue) <= maxQueueSize

\* ------------------------------------------------- the page script (App)
MaxAppEvents == 2      \* entries of the page script's list under the key

\* App.saveAnalyticsEvent(eventData), script.js:
\*   events = JSON.parse(localStorage.getItem('hadhramaut_analytics') || '[]');
\*   events.push(eventData); localStorage.setItem('hadhramaut_analytics', ...)
\* inside try.  The key is AnalyticsSystem's config.storageKey.  With no item
\* the list starts empty; on the object saveQueue stored, events.push is not a
\* function and the catch leaves the item as it was; a list stored by an
\* earlier call gets one more entry.  `array` is the length of the list.
saveAnalyticsEvent(stored, full) ==
    IF full THEN stored
    ELSE IF ~stored.present THEN [present |-> TRUE, array |-> 1]
    ELSE IF "array" \in DOMAIN stored THEN [stored EXCEPT !.array = @ + 1]
    ELSE stored

\* App.trackEvent(eventName, data): gtag when defined, then saveAnalyticsEvent
trackEvent ==
    /\ "array" \in DOMAIN storedQueue => storedQueue.array < MaxAppEvents
    /\ storedQueue' = saveAnalyticsEvent(storedQueue, storageFull)
    /\ UNCHANGED <<eventQueue, isFlushing, eventsToSend, recorded, delivered,
                   lastFlush, trackInFlight, storageFull, online, nonTelemetry>>

\* The event queue and the page script on one page, sharing the origin's
\* localStorage.
NextSharedKey ==
    \/ \E k \in EventKinds : addToQueue(k[1], k[2])
    \/ autoFlush
    \/ flushSucceeds
    \/ flushRefused
    \/ flushThrows
    \/ goOffline
    \/ goOnline
    \/ trackEvent

SpecSharedKey == Init /\ [][NextSharedKey]_vars

\* C33 (as stated): the item under the event queue's storage key changes only
\* by the queue's own save and clear: after every change the key is absent or
\* holds the object saveQueue writes, with a list of events the queue
\* recorded, so loadQueue always reads what the queue wrote.
C33_OnlyTheQueueWritesItsKey ==
    [][ storedQueue' # storedQueue =>
            /\ "events" \in DOMAIN storedQueue'
            /\ \A i \in DOMAIN storedQueue'.events :
                   storedQueue'.events[i].id \in 1..recorded' ]_vars

\* One fetchWithRetry invocation with its timers, the answers of the network
\* and the clock.
NextRetry ==
    \/ \E given \in {0, 1, 2} : fetchWithRetry(given)
    \/ attemptResolves
    \/ attemptFails
    \/ \E k \in 0..(retryAttempts - 1) : abortTimer(k)
    \/ delayOver
    \/ second

SpecRetry == Init /\ [][NextRetry]_vars

\* the attempts that have ended in the catch branch
FailedAttempts(r) ==
    { k \in DOMAIN r.log : r.log[k].cause \in FetchErrors }

\* C34: when the timer of an attempt fires while that attempt's fetch is in
\* flight, the attempt ends as one failed attempt, with AbortError, and the
\* loop goes to its delay, or throws when the attempt was the last; the timer
\* of an attempt that has ended changes nothing of the loop; and every attempt
\* begins with a timer of its own, due a full timeout later, and a controller
\* not aborted.
C34_TimeoutAbortsOneAttempt ==
    [][ /\ \A k \in retry'.aborted \ retry.aborted :
              IF retry.pc = "fetching" /\ k = retry.i
              THEN /\ FailedAttempts(retry') = FailedAttempts(retry) \cup {k + 1}
                   /\ retry'.log[k + 1].cause = "AbortError"
                   /\ retry'.i = retry.i
                   /\ retry'.pc = IF k = retry.attempts - 1 THEN "threw" ELSE "waiting"
              ELSE /\ retry'.pc = retry.pc
                   /\ retry'.i = retry.i
                   /\ retry'.log = retry.log
        /\ Len(retry'.log) > Len(retry.log) =>
              /\ retry'.pc = "fetching"
              /\ Len(retry'.log) = retry'.i + 1
              /\ retry'.i < retry'.attempts
              /\ [attempt |-> retry'.i, due |-> retry.clock + timeout] \in retry'.timers
              /\ retry'.i \notin retry'.aborted ]_vars

\* three attempts: the first failed on the network and its timer fired later,
\* during the second, which went on; the second and the third were aborted by
\* their own timers, and the loop threw
C34_Witness ==
    /\ retry.pc = "threw"
    /\ retry.attempts = 3
    /\ retry.log[1].cause = "TypeError"
    /\ retry.log[2].cause = "AbortError"
    /\ retry.log[3].cause = "AbortError"
    /\ retry.aborted = {0, 1, 2}
    /\ retry.log[2].ended >= retry.log[1].began + timeout + 1

\* C35: a failed attempt that is not the last is followed by a delay of
\* 2^attempt seconds, attempt counting from 0, and the next attempt begins
\* only when that time has passed since the failure; the last failed attempt
\* is followed by no delay, the loop throws at once.
C35_BackoffDoubles ==
    [][ /\ FailedAttempts(retry') # FailedAttempts(retry) =>
              IF retry.i = retry.attempts - 1
              THEN /\ retry'.pc = "threw"
                   /\ retry'.waits = retry.waits
                   /\ retry'.wake = retry.wake
              ELSE /\ retry'.pc = "waiting"
                   /\ retry'.waits = Append(retry.waits, 2 ^ retry.i)
                   /\ retry'.wake = retry.clock + 2 ^ retry.i
        /\ retry'.i # retry.i =>
              /\ retry'.i = retry.i + 1
              /\ retry.pc = "waiting"
              /\ retry.clock >= retry.log[retry.i + 1].ended + 2 ^ retry.i ]_vars

\* three failed attempts: 1 s asked for after the first and 2 s after the
\* second, the attempts begun that much later, nothing after the third
C35_Witness ==
    /\ retry.pc = "threw"
    /\ retry.attempts = 3
    /\ retry.waits = <<1, 2>>
    /\ retry.log[2].began = retry.log[1].ended + 1
    /\ retry.log[3].began = retry.log[2].ended + 2

\* The sync engine with its periodic timer, calls on demand and the
\* connectivity signal changing at any moment.
NextAutoSync ==
    \/ syncAllData
    \/ autoSync
    \/ SyncSettles
    \/ enqueueOffline("survey_response")
    \/ recordResponse("s1")
    \/ goOffline
    \/ goOnline

SpecAutoSync == Init /\ [][NextAutoSync]_vars

\* C36: a syncAllData() call made while navigator.onLine is false issues no
\* request, leaves the guard, the position and the locals of the engine, the
\* persisted queue and the response records as they are, starts no run, and
\* when no run is in progress returns at the connectivity test; and no run is
\* ever started, by the timer or otherwise, while the signal is offline.
C36_OfflineCallIsNoOp ==
    [][ /\ (syncLog'.calls # syncLog.calls /\ ~online') =>
              /\ syncLog'.lastCall = IF isSyncing THEN "busy" ELSE "offline"
              /\ syncLog'.runs = syncLog.runs
              /\ UNCHANGED <<isSyncing, syncPc, offlineStore, responsesStore,
                             snapshotStore, run, nextId, flights>>
        /\ (~isSyncing /\ isSyncing') => online' ]_vars

\* offline, with a mutation queued and a response pending, a call was made
\* and returned at the connectivity test; no run has ever started
C36_Witness ==
    /\ ~online
    /\ syncLog.lastCall = "offline"
    /\ syncLog.runs = 0
    /\ ~isSyncing
    /\ Len(offlineStore) > 0
    /\ \E i \in DOMAIN responsesStore : ~responsesStore[i].synced

\* The login form submitted again and again, its requests answered, and the
\* clock.
NextLogin ==
    \/ \E valid \in BOOLEAN : handleLogin(valid)
    \/ \E t \in Tokens : handleLoginSucceeds(t)
    \/ handleLoginFails
    \/ Tick

SpecLogin == Init /\ [][NextLogin]_vars

\* the failure count has reached the limit and less than the lockout time has
\* passed since the last failure was recorded
LockedOut ==
    /\ auth.loginAttempts >= maxLoginAttempts
    /\ now - auth.lastLoginAttempt < lockoutDuration

\* C37: a submission made when the failure count has reached the limit and
\* the lockout time has not passed since the last failure sends no login
\* request and leaves the count and the time of the last failure as they
\* were; the first submission after the lockout time sets the count to 0; a
\* submission below the limit leaves the count as it was, whether its input
\* is rejected locally or its request is sent; a successful login sets the
\* count to 0; and the count grows only by one, when a request sent has
\* failed, the time of that failure being recorded.
C37_LockoutAfterFailedLogins ==
    [][ /\ (auth'.submissions # auth.submissions /\ LockedOut) =>
              /\ auth'.requests = auth.requests
              /\ auth'.lastSubmission = "refused"
              /\ auth'.loginAttempts = auth.loginAttempts
              /\ auth'.lastLoginAttempt = auth.lastLoginAttempt
        /\ (auth'.submissions # auth.submissions /\ ~LockedOut) =>
              /\ auth'.lastSubmission \in {"invalid", "sent"}
              /\ auth'.requests =
                    auth.requests + (IF auth'.lastSubmission = "sent" THEN 1 ELSE 0)
              /\ auth'.loginAttempts =
                    IF auth.loginAttempts >= maxLoginAttempts THEN 0
                    ELSE auth.loginAttempts
        /\ (auth.submitting /\ ~auth'.submitting /\ token' # token) =>
              auth'.loginAttempts = 0
        /\ auth'.loginAttempts > auth.loginAttempts =>
              /\ auth.submitting /\ ~auth'.submitting
              /\ auth'.loginAttempts = auth.loginAttempts + 1
              /\ auth'.lastLoginAttempt = now ]_vars

\* two requests failed, the next submission was refused, and one made when
\* the lockout time had passed since the second failure was sent, the count
\* back at 0
C37_Witness ==
    /\ auth.submissions = 4
    /\ auth.requests = 3
    /\ auth.refused = 1
    /\ token = NoToken
    /\ auth.lastSubmission = "sent"
    /\ auth.submitting
    /\ auth.loginAttempts = 0
    /\ auth.lastLoginAttempt = NoTime

\* C38: every step that completes a logout() call leaves no stored token, no
\* stored user data, no stored session record and no stored refresh token,
\* the state unauthenticated and the refresh timer stopped; so also when the
\* server logout request was rejected.
C38_LogoutEndsTheLocalSession ==
    [][ auth'.logouts # auth.logouts =>
            /\ token' = NoToken
            /\ ~auth'.storedUser
            /\ ~auth'.storedSession
            /\ ~auth'.refreshToken
            /\ ~auth'.isAuthenticated
            /\ ~auth'.tokenRefreshInterval
            /\ ~auth'.loggingOut ]_vars

\* a signed-in user's logout() whose server request was rejected has
\* completed: nothing is stored, the state is unauthenticated, no timer
C38_Witness ==
    /\ auth.logouts = 1
    /\ auth.lastLogout = "failed"
    /\ auth.loggedOut
    /\ token = NoToken
    /\ ~auth.storedUser
    /\ ~auth.isAuthenticated
    /\ ~auth.tokenRefreshInterval

====
